---- MODULE Spec2Model ----
(***************************************************************************)
(* Verification model of the triple sampling / ranking-evaluation code:    *)
(*   - the batch stream  kdmkr/stream/fetch_dataset.py  (FetchDataset),     *)
(*   - the filtered evaluator  kdmkb/evaluation/evaluation.py (Evaluation), *)
(*   - the threshold search  kdmkb/evaluation/accuracy.py,                  *)
(*   - the partitioned dataset  mkb/datasets/multi_kb.py  (MultiKb).        *)
(* The specifications share the module and its variables: Spec (the batch  *)
(* stream, with LiveSpec adding the fairness of a running pull), EvalSpec   *)
(* (one evaluator call at a time), FilterSpec (a raw evaluator, then a      *)
(* filtered one), ParSpec (two callers of one evaluator), SamplerSpec (the  *)
(* seeded negative samplers of a stream), KbSpec (the partitioned dataset)  *)
(* and AccSpec (threshold search, then accuracy).                           *)
(***************************************************************************)
EXTENDS Integers, Sequences, FiniteSets, TLC

\* ------------------------------------------------------------------ bounds
MaxTrain == 3
\* Shuffled passes are explored for training sets up to this length, built
\* without validation and test sets and read one triple per batch.
MaxShuffledTrain == 2
MaxBatchSize == 2
MaxPulls == 5

\* The id tables of the triple source: NumEntities entity names and
\* NumRelations relation names, ids dense from 0.
NumEntities == 4
NumRelations == 2

\* Evaluation: the longest dataset evaluated, and the largest score a scoring
\* model gives.
MaxDataset == 2
MaxScore == 2

\* The triples the inputs are drawn from (the evaluation doctest's graph with
\* a second tail for (0,0), a second head for (0,1) and a second relation
\* for (0,_,1)).
KGSeq == << <<0, 0, 1>>, <<0, 0, 3>>, <<2, 0, 1>>, <<0, 1, 1>> >>

KG == { KGSeq[i] : i \in 1..Len(KGSeq) }

\* The validation and test sets the stream is built with.
ValidInputs == { <<>>, << <<0, 1, 1>> >> }

TestInputs == { <<>> } \cup { <<t>> : t \in KG }

\* ------------------------------------------------------------- sequences
SeqsUpTo(S, n) == UNION { [1..k -> S] : k \in 0..n }

Range(s) == { s[i] : i \in DOMAIN s }

Min(a, b) == IF a <= b THEN a ELSE b

Perms(n) == { p \in [1..n -> 1..n] : \A i, j \in 1..n : p[i] = p[j] => i = j }

Identity(n) == [i \in 1..n |-> i]

\* The elements of s at the positions I, in the order of s.
Pick(s, I) ==
    LET idx == CHOOSE f \in [1..Cardinality(I) -> I] :
                   \A a, b \in 1..Cardinality(I) : a < b => f[a] < f[b]
    IN  [k \in 1..Cardinality(I) |-> s[idx[k]]]

\* The sub-sequences of s of at most n elements.
SubSeqsUpTo(s, n) ==
    { Pick(s, I) : I \in { J \in SUBSET (1..Len(s)) : Cardinality(J) <= n } }

RECURSIVE Product(_)
\* One element of each set of a sequence of sets, as a sequence.
Product(sets) ==
    IF sets = <<>> THEN { <<>> }
    ELSE { <<x>> \o rest : x \in Head(sets), rest \in Product(Tail(sets)) }

RECURSIVE GCD(_, _)
GCD(a, b) == IF b = 0 THEN a ELSE GCD(b, a % b)

Abs(a) == IF a < 0 THEN -a ELSE a

\* ------------------------------------------------------------- id tables
\* A name -> id dictionary of n entries: name <<prefix, i>> has id i.
IdTable(prefix, n) == [nm \in { <<prefix, i>> : i \in 0..(n - 1) } |-> nm[2]]

\* -------------------------------------------------------------- variables
VARIABLES
    \* Evaluation: its fields, the arguments of the call (model, dataset), the
    \* call under way (epc, test_sets, cursor, metrics), the rows of the batch
    \* scored last, the ranks accumulated by the call, the (mode, position in
    \* the dataset) pairs it has ranked, and the value returned
    entities, relations, true_triples, eval_batch_size,
    model, dataset, epc, test_sets, cursor, metrics, rows, ranks, scored, result,
    \* for a caller that compares two Evaluations: the rank the call has given
    \* each (mode, position in the dataset), in the order ranked, and what the
    \* call of the Evaluation built without true triples ranked and returned
    ranked, raw_call,
    \* FetchDataset
    train, valid, test, n_entity, n_relation, batch_size, shuffle,
    step, fetch,
    \* the caller of next(dataset): position, value returned, all batches got
    pc, data, history,
    \* callers evaluating at the same time on one Evaluation: the call of each
    \* caller (position, loaders left, cursor, value returned, value returned
    \* by its call before), the metric dictionaries of the calls, and the
    \* rank torch.argsort has given each (mode, triple) sorted so far
    calls, accs, sorted,
    \* the negative samplers of two FetchDataset built alike: the seed, the
    \* size of a negative sample, whether known triples are avoided, and per
    \* (instance, mode) the generator, the triples read, the ids drawn again
    \* and the samples drawn
    seed, negative_sample_size, avoid_known, samplers,
    \* MultiKb(dataset, id_set, n_part): the dataset split, the arguments, the
    \* position in __init__, the frames and the locals of split_train, the
    \* excluded triples and the train, valid and test sets MultiKb keeps
    kb_dataset, n_part, id_set, kb_pc, frames, frame_i, splitted_train,
    excluded_triples, multikb,
    \* the order random.Random(dataset.seed).shuffle gives a list as long as
    \* dataset.train, the order RandomState(dataset.seed) draws the ids of the
    \* entity table in, the MultiKb objects built so far from the dataset, and
    \* MultiKb's parameter aligned_entities (in halves), dataset.entities and
    \* the entity table of the MultiKb
    seeded_order, seeded_choice, built, aligned_entities, kb_entities, multikb_entities,
    \* find_treshold(model, X, y) then accuracy(model, X, y, threshold): the
    \* arguments, the predictions, the position, the locals of
    \* _compute_best_treshold, what find_treshold returned and what accuracy did
    X, y, y_pred, acc_pc, thr_i, best_treshold, best_accuracy, best, checked

streamVars == <<train, valid, test, n_entity, n_relation, batch_size, shuffle,
                step, fetch, pc, data, history>>

evalVars == <<entities, relations, true_triples, eval_batch_size, model, dataset,
              epc, test_sets, cursor, metrics, rows, ranks, scored, result,
              ranked, raw_call>>

parVars == <<calls, accs, sorted>>

\* The variables an action of one component leaves alone.
samplerVars == <<seed, negative_sample_size, avoid_known, samplers>>

kbVars == <<kb_dataset, n_part, id_set, kb_pc, frames, frame_i, splitted_train,
            excluded_triples, multikb, seeded_order, seeded_choice, built,
            aligned_entities, kb_entities, multikb_entities>>

accVars == <<X, y, y_pred, acc_pc, thr_i, best_treshold, best_accuracy, best, checked>>

exceptStream == <<evalVars, parVars, samplerVars, kbVars, accVars>>

exceptEval == <<streamVars, parVars, samplerVars, kbVars, accVars, raw_call>>

exceptPar == <<streamVars, epc, test_sets, cursor, metrics, rows, ranks, scored, result,
               ranked, raw_call,
               samplerVars, kbVars, accVars>>

exceptSampler == <<streamVars, evalVars, parVars, kbVars, accVars>>

exceptKb == <<streamVars, evalVars, parVars, samplerVars, accVars>>

exceptAcc == <<streamVars, entities, relations, true_triples, eval_batch_size, model,
               dataset, epc, test_sets, cursor, metrics, rows, ranks, scored, result,
               ranked, raw_call, parVars, samplerVars, kbVars>>

vars == <<entities, relations, true_triples, eval_batch_size, model, dataset,
          epc, test_sets, cursor, metrics, rows, ranks, scored, result, ranked, raw_call,
          train, valid, test, n_entity, n_relation,
          batch_size, shuffle, step, fetch, pc, data, history, calls, accs, sorted,
          seed, negative_sample_size, avoid_known, samplers,
          kb_dataset, n_part, id_set, kb_pc, frames, frame_i, splitted_train,
          excluded_triples, multikb, seeded_order, seeded_choice, built,
          aligned_entities, kb_entities, multikb_entities,
          X, y, y_pred, acc_pc, thr_i, best_treshold, best_accuracy, best, checked>>

\* ---------------------------------------------------- FetchDataset.__init__
\* itertools.chain(train, valid, test)
chain(a, b, c) == a \o b \o c

\* len(set(chain.from_iterable([[head, tail] for head, _, tail in ...])))
NEntityHeadsOnly(tr, va, te) ==
    Cardinality({ chain(tr, va, te)[i][1] : i \in 1..Len(chain(tr, va, te)) })

NEntity(tr, va, te) ==
    LET triples == chain(tr, va, te)
        pairs == [i \in 1..Len(triples) |-> <<triples[i][1], triples[i][3]>>]
        flat == [k \in 1..(2 * Len(pairs)) |-> pairs[(k + 1) \div 2][2 - (k % 2)]]
    IN  Cardinality(Range(flat))

\* len(set([relation for _, relation, _ in chain(train, valid, test)]))
NRelation(tr, va, te) ==
    LET triples == chain(tr, va, te)
    IN  Cardinality(Range([i \in 1..Len(triples) |-> triples[i][2]]))

\* The two sub-streams, named by the mode of their TrainDataset.
TrainModes == {"head-batch", "tail-batch"}

\* What the caller of next(dataset) has in hand: nothing yet, a pull under
\* way, a batch returned, or StopIteration raised.
NoBatch == [mode |-> "none", positive_sample |-> <<>>, weight |-> <<>>,
            positions |-> <<>>, index |-> 0]

Outcome(o, b) == [outcome |-> o, value |-> b]

\* fetch(dataloader) before its first next(): a generator that has not started.
NewGenerator == [state |-> "start", order |-> <<>>, cursor |-> 0]

\* ---------------------------------------------- TrainDataset: the weights
\* The triples the TrainDataset of a mode is built on: triples=train, for
\* both modes.
TrainDataset_triplesAll(m, tr, va, te) == chain(tr, va, te)

TrainDataset_triples(m, tr, va, te) == tr

\* The value a frequency counter takes at the first occurrence of its prefix;
\* every further occurrence adds one. With it a triple whose two prefixes
\* occur once has the weight 1 / sqrt(4 + 4) = 0.3536 of the class example.
CountStart == 4

\* The counters of the prefix (head, relation) and of the prefix
\* (relation, tail) after one pass over `triples`; 0 for a prefix not met.
CountHeadRelation(triples, h, r) ==
    LET n == Cardinality({ i \in 1..Len(triples) : triples[i][1] = h /\ triples[i][2] = r })
    IN  IF n = 0 THEN 0 ELSE CountStart + n - 1

CountRelationTail(triples, r, t) ==
    LET n == Cardinality({ i \in 1..Len(triples) : triples[i][2] = r /\ triples[i][3] = t })
    IN  IF n = 0 THEN 0 ELSE CountStart + n - 1

\* The subsampling weight of a positive triple, 1 / sqrt(c), kept as the
\* whole number c under the root: two weights are equal exactly when their c
\* are, and 1 / sqrt(c) is positive and finite exactly when c > 0.
subsampling_weight(triples, triple) ==
    [inv_sq |-> CountHeadRelation(triples, triple[1], triple[2])
                  + CountRelationTail(triples, triple[2], triple[3])]

\* ------------------------------------------------------------- DataLoader
\* Number of batches of one pass over n items (drop_last is not set).
NumBatches(n, bs) == (n + bs - 1) \div bs

\* The dataset positions of batch number c (0-based) of a pass in `order`.
BatchPositionsPadded(order, c, bs) ==
    LET got == SubSeq(order, c * bs + 1, Min(Len(order), (c + 1) * bs))
    IN  got \o [i \in 1..(bs - Len(got)) |-> order[((i - 1) % Len(order)) + 1]]

BatchPositions(order, c, bs) ==
    SubSeq(order, c * bs + 1, Min(Len(order), (c + 1) * bs))

\* The sampler's order for one pass: sequential, or a fresh permutation.
SamplerOrders(n, shuf) == IF shuf THEN Perms(n) ELSE {Identity(n)}

\* ------------------------------------------------------ FetchDataset.__next__
\* Which sub-stream serves the pull that made the counter `s`.
NextModeSwapped(s) == IF s % 2 = 0 THEN "tail-batch" ELSE "head-batch"

NextMode(s) == IF s % 2 = 0 THEN "head-batch" ELSE "tail-batch"

\* The generator that serves the pulls of a mode: fetch_head is built on the
\* head loader, fetch_tail on the tail loader.
fetch_shared(m) == "tail-batch"

fetch_of(m) == m

\* What the generator does when `yield from dataloader` returns: `while True`
\* starts the next pass.
FetchOnce(g) == [g EXCEPT !.state = "done"]

AfterPass(g) == [g EXCEPT !.state = "start"]

\* self.step += 1, then next(self.fetch_head) or next(self.fetch_tail) begins.
\* next() of a generator that has returned raises StopIteration at once.
FetchDataset_next ==
    /\ pc = "idle"
    /\ step < MaxPulls
    /\ step' = step + 1
    /\ IF fetch[fetch_of(NextMode(step + 1))].state = "done"
       THEN /\ pc' = "idle"
            /\ data' = Outcome("StopIteration", NoBatch)
       ELSE /\ pc' = NextMode(step + 1)
            /\ data' = Outcome("pending", NoBatch)
    /\ UNCHANGED <<train, valid, test, n_entity, n_relation, batch_size, shuffle,
                   fetch, history>>
    /\ UNCHANGED exceptStream

\* `yield from dataloader` calls iter(dataloader): a new pass begins.
fetch_iter(m) ==
    /\ pc = m
    /\ fetch[fetch_of(m)].state = "start"
    /\ \E order \in SamplerOrders(Len(train), shuffle) :
           fetch' = [fetch EXCEPT ![fetch_of(m)] =
                                      [state |-> "iter", order |-> order, cursor |-> 0]]
    /\ UNCHANGED <<train, valid, test, n_entity, n_relation, batch_size, shuffle,
                   step, pc, data, history>>
    /\ UNCHANGED exceptStream

\* The pass has a batch left: the generator yields it and __next__ returns it.
fetch_yield(m) ==
    /\ pc = m
    /\ fetch[fetch_of(m)].state = "iter"
    /\ fetch[fetch_of(m)].cursor < NumBatches(Len(train), batch_size)
    /\ LET g == fetch[fetch_of(m)]
           pos == BatchPositions(g.order, g.cursor, batch_size)
           batch == [ mode |-> m,
                      positive_sample |-> [i \in 1..Len(pos) |-> train[pos[i]]],
                      weight |-> [i \in 1..Len(pos) |->
                          subsampling_weight(TrainDataset_triples(m, train, valid, test),
                                             train[pos[i]])],
                      positions |-> pos,
                      index |-> g.cursor + 1 ]
       IN  /\ fetch' = [fetch EXCEPT ![fetch_of(m)].cursor = g.cursor + 1]
           /\ data' = Outcome("returned", batch)
           /\ history' = Append(history, batch)
    /\ pc' = "idle"
    /\ UNCHANGED <<train, valid, test, n_entity, n_relation, batch_size, shuffle, step>>
    /\ UNCHANGED exceptStream

\* The pass is over (the loader's iterator raises StopIteration inside
\* `yield from`): the generator loops, or, had it returned, next() would
\* raise StopIteration to the caller of __next__.
fetch_exhausted(m) ==
    /\ pc = m
    /\ fetch[fetch_of(m)].state = "iter"
    /\ fetch[fetch_of(m)].cursor >= NumBatches(Len(train), batch_size)
    /\ fetch' = [fetch EXCEPT ![fetch_of(m)] = AfterPass(fetch[fetch_of(m)])]
    /\ IF AfterPass(fetch[fetch_of(m)]).state = "done"
       THEN /\ pc' = "idle"
            /\ data' = Outcome("StopIteration", NoBatch)
       ELSE UNCHANGED <<pc, data>>
    /\ UNCHANGED <<train, valid, test, n_entity, n_relation, batch_size, shuffle,
                   step, history>>
    /\ UNCHANGED exceptStream

\* ================================================================
\* Evaluation (kdmkb/evaluation/evaluation.py)
\* ================================================================

\* --------------------------------------------------------- scoring model
\* The scoring model is an opaque function of a candidate triple. The models
\* explored score a triple by a weighted sum of its ids, modulo MaxScore + 1.
Weights == {0, 1}

ScoreModels == [a : Weights, b : Weights, c : Weights]

Score(mdl, triple) ==
    (mdl.a * triple[1] + mdl.b * triple[2] + mdl.c * triple[3]) % (MaxScore + 1)

\* ------------------------------------------------------------ TestDataset
\* The candidate ids of a mode: every entity id, or every relation id.
Candidates(mode) ==
    IF mode = "relation-batch"
    THEN 0..(Cardinality(DOMAIN relations) - 1)
    ELSE 0..(Cardinality(DOMAIN entities) - 1)

\* The triple with candidate c in the slot the mode corrupts.
Substitute(triple, mode, c) ==
    CASE mode = "head-batch" -> <<c, triple[2], triple[3]>>
      [] mode = "relation-batch" -> <<triple[1], c, triple[3]>>
      [] mode = "tail-batch" -> <<triple[1], triple[2], c>>

\* negative_sample: the candidate triples, in the order of the candidate ids.
NegativeSample(triple, mode) ==
    [c \in Candidates(mode) |-> Substitute(triple, mode, c)]

\* The constant subtracted from a filtered candidate: larger than any score.
LargeBias == MaxScore + 1

\* filter_bias: minus the constant for a candidate that is another known-true
\* completion of the fixed pair, zero for the true answer and for the rest.
FilterBias(triple, mode) ==
    [c \in Candidates(mode) |->
        IF /\ Substitute(triple, mode, c) \in Range(true_triples)
           /\ Substitute(triple, mode, c) # triple
        THEN -LargeBias ELSE 0]

\* ------------------------------------------------ Evaluation.compute_score
\* score = model(negative_sample); score += filter_bias
BiasedScoreNoBias(triple, mode) ==
    [c \in Candidates(mode) |-> Score(model, NegativeSample(triple, mode)[c])]

BiasedScoreRelative(triple, mode) ==
    [c \in Candidates(mode) |-> Score(model, triple) - Score(model, NegativeSample(triple, mode)[c])]

BiasedScoreSubtracted(triple, mode) ==
    [c \in Candidates(mode) |->
        Score(model, NegativeSample(triple, mode)[c]) - FilterBias(triple, mode)[c]]

BiasedScore(triple, mode) ==
    [c \in Candidates(mode) |->
        Score(model, NegativeSample(triple, mode)[c]) + FilterBias(triple, mode)[c]]

RECURSIVE Descending(_, _)
\* The orders of the candidates `left` in which no candidate comes before one
\* of a higher score.
Descending(score, left) ==
    IF left = {} THEN { <<>> }
    ELSE LET first == { c \in left : \A d \in left : score[d] <= score[c] }
         IN  UNION { { <<c>> \o rest : rest \in Descending(score, left \ {c}) } :
                     c \in first }

\* torch.argsort(score, dim=1, descending=True): the sort is not stable, so
\* candidates of equal score come in any order.
ArgsortAscending(score) == Descending([c \in DOMAIN score |-> -score[c]], DOMAIN score)

Argsort(score) == Descending(score, DOMAIN score)

\* positive_arg: the slot of the positive triple that holds the true answer.
PositiveArgHeadSlot(mode, positive) == positive[1]

PositiveArg(mode, positive) ==
    IF mode = "head-batch" THEN positive[1]
    ELSE IF mode = "relation-batch" THEN positive[2]
    ELSE positive[3]

\* (argsort[i, :] == positive_arg[i]).nonzero(): the 0-based positions found.
Nonzero(argsort, arg) == { k - 1 : k \in { j \in DOMAIN argsort : argsort[j] = arg } }

\* ranking = 1 + ranking.item()
Ranking(found) == 1 + (CHOOSE k \in found : TRUE)

\* What one row of a batch yields under one order of the candidates: the
\* number of positions found, the ranking, and the filtered candidates the
\* order puts before the true answer.
Row(triple, mode, score, bias, argsort) ==
    LET found == Nonzero(argsort, PositiveArg(mode, triple))
        ranking == IF Cardinality(found) = 1 THEN Ranking(found) ELSE 0
    IN  [ positive |-> triple,
          mode |-> mode,
          score |-> score,
          found |-> Cardinality(found),
          ranking |-> ranking,
          filtered_above |->
              { c \in DOMAIN bias :
                  /\ bias[c] # 0
                  /\ \E j \in DOMAIN argsort : j < ranking /\ argsort[j] = c } ]

RowOutcomes(triple, mode) ==
    LET score == BiasedScore(triple, mode)
        bias == FilterBias(triple, mode)
    IN  { Row(triple, mode, score, bias, p) : p \in Argsort(score) }

\* ----------------------------------------------------------- stats.Mean
\* A running mean: the number of updates and the mean, a fraction <<p, q>>
\* in lowest terms.
Fraction(p, q) == LET g == GCD(Abs(p), q) IN <<p \div g, q \div g>>

NewMean == [n |-> 0, mean |-> <<0, 1>>]

\* Mean.update(x): n += 1; mean += (x - mean) / n, for x = <<p, q>>.
MeanUpdateHalf(m, x) ==
    [n |-> m.n + 1,
     mean |-> Fraction(x[1] * m.mean[2] + m.mean[1] * x[2], 2 * x[2] * m.mean[2])]

MeanUpdate(m, x) ==
    LET n == m.n + 1
        diff == <<x[1] * m.mean[2] - m.mean[1] * x[2], x[2] * m.mean[2]>>
        step_ == <<diff[1], diff[2] * n>>
    IN  [n |-> n,
         mean |-> Fraction(m.mean[1] * step_[2] + step_[1] * m.mean[2],
                           m.mean[2] * step_[2])]

MetricNames == {"MRR", "MR", "HITS@1", "HITS@3", "HITS@10"}

NewMetricsStale == [name \in MetricNames |-> [n |-> 1, mean |-> <<1, 1>>]]

NewMetrics == [name \in MetricNames |-> NewMean]

\* 1.0 if ranking <= k else 0.0
Hits(ranking, k) == IF ranking <= k THEN <<1, 1>> ELSE <<0, 1>>

\* The five updates made for one ranking.
UpdateMetrics(ms, ranking) ==
    [name \in MetricNames |->
        CASE name = "MRR" -> MeanUpdate(ms[name], <<1, ranking>>)
          [] name = "MR" -> MeanUpdate(ms[name], <<ranking, 1>>)
          [] name = "HITS@1" -> MeanUpdate(ms[name], Hits(ranking, 1))
          [] name = "HITS@3" -> MeanUpdate(ms[name], Hits(ranking, 3))
          [] name = "HITS@10" -> MeanUpdate(ms[name], Hits(ranking, 10))]

RECURSIVE UpdateAll(_, _)
\* The updates of the rows of a batch, in order.
UpdateAll(ms, rs) ==
    IF rs = <<>> THEN ms
    ELSE UpdateAll(UpdateMetrics(ms, Head(rs).ranking), Tail(rs))

\* round(x, 4) of a fraction x >= 0, in ten-thousandths (ties to even).
Round4(x) ==
    LET q == (10000 * x[1]) \div x[2]
        r == (10000 * x[1]) % x[2]
    IN  IF 2 * r < x[2] THEN q
        ELSE IF 2 * r > x[2] THEN q + 1
        ELSE IF q % 2 = 0 THEN q ELSE q + 1

\* The ranks accumulated by a call: how many times each rank was met.
NoRanks ==
    [r \in 1..(IF NumEntities > NumRelations THEN NumEntities ELSE NumRelations) |-> 0]

RECURSIVE AddRanks(_, _)
AddRanks(rk, rs) ==
    IF rs = <<>> THEN rk
    ELSE AddRanks([rk EXCEPT ![Head(rs).ranking] = @ + 1], Tail(rs))

\* No caller keeps the ranks of a call to compare two Evaluations.
NoRaw == [call |-> "none", ranked |-> <<>>, values |-> [name \in {} |-> 0]]

\* A caller keeps them, and no call of an Evaluation without true triples has
\* returned to it yet.
RawPending == [call |-> "pending", ranked |-> <<>>, values |-> [name \in {} |-> 0]]

\* What a call returned: which call, and the dictionary of rounded metrics.
NoResult == [call |-> "none", values |-> [name \in {} |-> 0]]

\* ---------------------------------------------------------- Evaluation
\* get_entity_stream: [head_loader, tail_loader], each loader named by its mode.
get_entity_streamHeadOnly == <<"head-batch">>

get_entity_stream == <<"head-batch", "tail-batch">>

\* get_relation_stream: the relation loader.
get_relation_streamAsHead == <<"head-batch">>

get_relation_stream == <<"relation-batch">>

\* The triples of the batch that starts after `cur` triples of the dataset.
BatchTriples(cur) ==
    SubSeq(dataset, cur + 1, Min(Len(dataset), cur + eval_batch_size))

streamUnused ==
    /\ train = <<>>
    /\ valid = <<>>
    /\ test = <<>>
    /\ n_entity = 0
    /\ n_relation = 0
    /\ batch_size = 1
    /\ shuffle = FALSE
    /\ step = 0
    /\ fetch = [m \in TrainModes |-> NewGenerator]
    /\ pc = "idle"
    /\ data = Outcome("none", NoBatch)
    /\ history = <<>>

\* No evaluation is under way.
evalUnused ==
    /\ true_triples = <<>>
    /\ eval_batch_size = 1
    /\ model = [a |-> 0, b |-> 0, c |-> 0]
    /\ dataset = <<>>
    /\ epc = "idle"
    /\ test_sets = <<>>
    /\ cursor = 0
    /\ metrics = NewMetrics
    /\ rows = <<>>
    /\ ranks = NoRanks
    /\ scored = <<>>
    /\ ranked = <<>>
    /\ raw_call = NoRaw
    /\ result = NoResult

\* Evaluation.eval: fresh metrics, then the head loader and the tail loader.
eval ==
    /\ epc = "idle"
    /\ epc' = "eval"
    /\ metrics' = NewMetrics
    /\ test_sets' = get_entity_stream
    /\ cursor' = 0
    /\ rows' = <<>>
    /\ ranks' = NoRanks
    /\ scored' = <<>>
    /\ ranked' = <<>>
    /\ result' = NoResult
    /\ UNCHANGED <<entities, relations, true_triples, eval_batch_size, model, dataset>>
    /\ UNCHANGED exceptEval

\* Evaluation.eval_relations: fresh metrics, then the relation loader.
eval_relations ==
    /\ epc = "idle"
    /\ epc' = "eval_relations"
    /\ metrics' = NewMetrics
    /\ test_sets' = get_relation_stream
    /\ cursor' = 0
    /\ rows' = <<>>
    /\ ranks' = NoRanks
    /\ scored' = <<>>
    /\ ranked' = <<>>
    /\ result' = NoResult
    /\ UNCHANGED <<entities, relations, true_triples, eval_batch_size, model, dataset>>
    /\ UNCHANGED exceptEval

\* One pass of the loop of compute_score: the next batch of the loader is
\* scored, sorted and ranked row by row. A row whose assertion fails ends the
\* call with an AssertionError, after the updates of the rows before it.
compute_score ==
    /\ epc \in {"eval", "eval_relations"}
    /\ test_sets # <<>>
    /\ cursor < Len(dataset)
    /\ LET mode == Head(test_sets)
           batch == BatchTriples(cursor)
       IN  \E rs \in Product([i \in 1..Len(batch) |-> RowOutcomes(batch[i], mode)]) :
              LET bad == { i \in 1..Len(rs) : rs[i].found # 1 }
                  ok == IF bad = {} THEN rs
                        ELSE SubSeq(rs, 1, (CHOOSE i \in bad : \A j \in bad : i <= j) - 1)
              IN  /\ rows' = rs
                  /\ metrics' = UpdateAll(metrics, ok)
                  /\ ranks' = AddRanks(ranks, ok)
                  /\ scored' = scored \o [i \in 1..Len(ok) |-> <<mode, cursor + i>>]
                  /\ ranked' = IF raw_call = NoRaw THEN ranked
                                ELSE ranked \o [i \in 1..Len(ok) |->
                                        [mode |-> mode, index |-> cursor + i,
                                         ranking |-> ok[i].ranking]]
                  /\ IF bad # {}
                     THEN /\ epc' = "AssertionError"
                          /\ UNCHANGED <<test_sets, cursor>>
                     ELSE /\ epc' = epc
                          /\ IF cursor + Len(batch) >= Len(dataset)
                             THEN /\ test_sets' = Tail(test_sets)
                                  /\ cursor' = 0
                             ELSE /\ test_sets' = test_sets
                                  /\ cursor' = cursor + Len(batch)
    /\ result' = result
    /\ UNCHANGED <<entities, relations, true_triples, eval_batch_size, model, dataset>>
    /\ UNCHANGED exceptEval

\* The loaders are exhausted: eval returns {name: round(metric.get(), 4)}.
eval_return ==
    /\ epc = "eval"
    /\ test_sets = <<>> \/ Len(dataset) = 0
    /\ epc' = "idle"
    /\ result' = [call |-> "eval",
                  values |-> [name \in MetricNames |-> Round4(metrics[name].mean)]]
    /\ UNCHANGED <<entities, relations, true_triples, eval_batch_size, model, dataset,
                   test_sets, cursor, metrics, rows, ranks, scored, ranked>>
    /\ UNCHANGED exceptEval

\* eval_relations returns {name_relations: round(metric.get(), 4)}.
eval_relations_return ==
    /\ epc = "eval_relations"
    /\ test_sets = <<>> \/ Len(dataset) = 0
    /\ epc' = "idle"
    /\ result' = [call |-> "eval_relations",
                  values |-> [name \in { <<n, "_relations">> : n \in MetricNames } |->
                                 Round4(metrics[name[1]].mean)]]
    /\ UNCHANGED <<entities, relations, true_triples, eval_batch_size, model, dataset,
                   test_sets, cursor, metrics, rows, ranks, scored, ranked>>
    /\ UNCHANGED exceptEval

\* Evaluation(entities, relations, batch_size, true_triples=...): after a call
\* of an Evaluation built without true triples has returned, the caller keeps
\* what it ranked and returned and builds an Evaluation with true triples, the
\* same id tables and batch size, for the same model and dataset.
Evaluation_true_triples ==
    /\ epc = "idle"
    /\ result.call # "none"
    /\ true_triples = <<>>
    /\ raw_call = RawPending
    /\ raw_call' = [call |-> result.call, ranked |-> ranked, values |-> result.values]
    /\ true_triples' \in {dataset, KGSeq} \ {<<>>}
    /\ test_sets' = <<>>
    /\ cursor' = 0
    /\ metrics' = NewMetrics
    /\ rows' = <<>>
    /\ ranks' = NoRanks
    /\ scored' = <<>>
    /\ ranked' = <<>>
    /\ result' = NoResult
    /\ UNCHANGED <<entities, relations, eval_batch_size, model, dataset, epc>>
    /\ UNCHANGED <<streamVars, parVars, samplerVars, kbVars, accVars>>

\* ------------------------------------- several callers of one Evaluation
\* The callers, and how many calls they make in all. The call of a caller
\* notes whether it scored a batch while another call was under way.
Callers == {1, 2}

MaxCalls == 3

Kinds == {"eval", "eval_relations"}

AllModes == {"head-batch", "tail-batch", "relation-batch"}

\* The datasets and the scoring model the callers evaluate: the model scores
\* by head and tail and gives some candidates of a row the same score.
ParDatasets == { SubSeq(KGSeq, 1, 1), SubSeq(KGSeq, 1, 2) }

ParModels == { [a |-> 1, b |-> 0, c |-> 1] }

\* metrics = collections.OrderedDict(...): the dictionary a call of caller p
\* accumulates in is a local of that call.
SharedMetrics(p) == 1

LocalMetrics(p) == p

\* The loaders of a call.
Stream(kind) == IF kind = "eval" THEN get_entity_stream ELSE get_relation_stream

\* The names under which a call returns its metrics.
Names(kind) ==
    IF kind = "eval" THEN MetricNames
    ELSE { <<name, "_relations">> : name \in MetricNames }

\* {name: round(metric.get(), 4)} of a call of this kind.
Returned(kind, ms) ==
    [name \in Names(kind) |->
        Round4(ms[IF kind = "eval" THEN name ELSE name[1]].mean)]

NoValue == [has |-> FALSE, values |-> [name \in MetricNames |-> 0]]

NewCall ==
    [epc |-> "idle", test_sets |-> <<>>, cursor |-> 0, ncalls |-> 0,
     overlapped |-> FALSE,
     result |-> [call |-> "none", value |-> NoValue],
     previous |-> [k \in Kinds |-> NoValue]]

\* torch.argsort is a function of the scores: the order it gives candidates
\* of equal score is not specified, but the same scores are sorted the same
\* way each time. A (mode, triple) sorted before keeps the rank it got.
SortedOutcomes(triple, mode) ==
    IF sorted[<<mode, triple>>] = 0 THEN RowOutcomes(triple, mode)
    ELSE { row \in RowOutcomes(triple, mode) : row.ranking = sorted[<<mode, triple>>] }

parUnused ==
    /\ calls = [p \in Callers |-> NewCall]
    /\ accs = [p \in Callers |-> NewMetrics]
    /\ sorted = [k \in AllModes \X KG |-> 0]

\* Caller p calls eval or eval_relations.
call_by(p, kind) ==
    /\ calls[p].epc = "idle"
    /\ calls[1].ncalls + calls[2].ncalls < MaxCalls
    /\ accs' = [accs EXCEPT ![LocalMetrics(p)] = NewMetrics]
    /\ calls' = [calls EXCEPT ![p] =
                    [epc |-> kind, test_sets |-> Stream(kind), cursor |-> 0,
                     ncalls |-> @.ncalls + 1,
                     overlapped |-> FALSE,
                     result |-> [call |-> "none", value |-> NoValue],
                     previous |-> IF @.result.call = "none" THEN @.previous
                                  ELSE [@.previous EXCEPT ![calls[p].result.call] =
                                            calls[p].result.value]]]
    /\ UNCHANGED <<entities, relations, true_triples, eval_batch_size, model, dataset, sorted>>
    /\ UNCHANGED exceptPar

eval_by(p) == call_by(p, "eval")

eval_relations_by(p) == call_by(p, "eval_relations")

\* One pass of the loop of compute_score in the call of caller p.
compute_score_by(p) ==
    /\ calls[p].epc \in Kinds
    /\ calls[p].test_sets # <<>>
    /\ calls[p].cursor < Len(dataset)
    /\ LET mode == Head(calls[p].test_sets)
           batch == BatchTriples(calls[p].cursor)
       IN  \E rs \in Product([i \in 1..Len(batch) |-> SortedOutcomes(batch[i], mode)]) :
              LET bad == { i \in 1..Len(rs) : rs[i].found # 1 }
                  ok == IF bad = {} THEN rs
                        ELSE SubSeq(rs, 1, (CHOOSE i \in bad : \A j \in bad : i <= j) - 1)
                  last == calls[p].cursor + Len(batch) >= Len(dataset)
              IN  /\ sorted' = [k \in DOMAIN sorted |->
                                   IF \E i \in 1..Len(rs) : k = <<mode, batch[i]>>
                                   THEN rs[CHOOSE i \in 1..Len(rs) : k = <<mode, batch[i]>>].ranking
                                   ELSE sorted[k]]
                  /\ accs' = [accs EXCEPT ![LocalMetrics(p)] = UpdateAll(@, ok)]
                  /\ calls' = [calls EXCEPT ![p] =
                                  LET ov == @.overlapped
                                                \/ \E q \in Callers \ {p} : calls[q].epc \in Kinds
                                  IN  IF bad # {} THEN [@ EXCEPT !.epc = "AssertionError"]
                                      ELSE IF last
                                      THEN [@ EXCEPT !.test_sets = Tail(@), !.cursor = 0,
                                                     !.overlapped = ov]
                                      ELSE [@ EXCEPT !.cursor = @ + Len(batch),
                                                     !.overlapped = ov]]
    /\ UNCHANGED <<entities, relations, true_triples, eval_batch_size, model, dataset>>
    /\ UNCHANGED exceptPar

\* The loaders of the call of caller p are exhausted: it returns.
return_to(p) ==
    /\ calls[p].epc \in Kinds
    /\ calls[p].test_sets = <<>> \/ Len(dataset) = 0
    /\ calls' = [calls EXCEPT ![p] =
                    [@ EXCEPT !.epc = "idle",
                              !.result = [call |-> calls[p].epc,
                                          value |-> [has |-> TRUE,
                                                     values |-> Returned(calls[p].epc,
                                                                   accs[LocalMetrics(p)])]]]]
    /\ UNCHANGED <<entities, relations, true_triples, eval_batch_size, model, dataset,
                   accs, sorted>>
    /\ UNCHANGED exceptPar

\* The triples of train, valid and test.
AllTriples == Range(train) \cup Range(valid) \cup Range(test)

\* ------------------------------------------------- TrainDataset: sampling
\* The seeds, and the sizes of the negative sample, a FetchDataset is built
\* with.
Seeds == {0, 1, 2}

MaxNegatives == 2

\* How many times a draw that reproduces a known triple is drawn again.
RetryBound == 2

\* Two FetchDataset built with the same arguments.
Instances == {1, 2}

\* The training sets sampled from.
SamplerTrains == SubSeqsUpTo(KGSeq, MaxTrain) \ { <<>> }

\* TrainDataset(..., mode=mode, seed=seed): both sub-streams get the seed of
\* the FetchDataset.
TrainDatasetSeedPerMode(mode, sd) == IF mode = "head-batch" THEN sd + 1 ELSE sd

TrainDatasetSeed(mode, sd) == sd

\* The seeded generator: its next state, and the id in [0, n) a state yields.
RngModulus == 16

RngNext(s) == (5 * s + 3) % RngModulus

RngId(s, n) == (s \div 2) % n

\* The drawn id would reproduce a triple of the prefix index.
Known(positive, mode, id) == Substitute(positive, mode, id) \in AllTriples

RECURSIVE DrawOne(_, _, _, _)
\* One candidate id: drawn again while it reproduces a known triple and the
\* retries are not used up, then kept. Gives <<id, generator state, number
\* of ids drawn again>>.
DrawOne(positive, mode, s, tries) ==
    LET s1 == RngNext(s)
        id == RngId(s1, n_entity)
    IN  IF avoid_known /\ Known(positive, mode, id) /\ tries < RetryBound
        THEN DrawOne(positive, mode, s1, tries + 1)
        ELSE <<id, s1, tries>>

RECURSIVE Sample(_, _, _, _)
\* sample(positive, mode, size, avoid_known): exactly size candidate ids.
\* Gives <<ids, generator state, number of ids drawn again>>.
Sample(positive, mode, size, s) ==
    IF size = 0 THEN << <<>>, s, 0 >>
    ELSE LET one == DrawOne(positive, mode, s, 0)
             rest == Sample(positive, mode, size - 1, one[2])
         IN  << <<one[1]>> \o rest[1], rest[2], one[3] + rest[3] >>

NewSampler(mode, sd) ==
    [rng |-> TrainDatasetSeed(mode, sd), done |-> 0, redrawn |-> 0, out |-> <<>>]

samplerUnused ==
    /\ seed = 0
    /\ negative_sample_size = 1
    /\ avoid_known = FALSE
    /\ samplers = [k \in Instances \X TrainModes |-> NewSampler(k[2], 0)]

\* The sub-stream of mode m of instance i reads its next training triple and
\* draws the negative sample of it.
getitem(i, m) ==
    /\ samplers[<<i, m>>].done < Len(train)
    /\ LET smp == samplers[<<i, m>>]
           drawn == Sample(train[smp.done + 1], m, negative_sample_size, smp.rng)
       IN  samplers' = [samplers EXCEPT ![<<i, m>>] =
                           [rng |-> drawn[2], done |-> smp.done + 1,
                            redrawn |-> smp.redrawn + drawn[3],
                            out |-> Append(smp.out, drawn[1])]]
    /\ UNCHANGED <<seed, negative_sample_size, avoid_known>>
    /\ UNCHANGED exceptSampler

\* ------------------------------------------------------------- MultiKb
\* The largest n_part a dataset is split in.
MaxParts == 3

\* The training sets split: sub-sequences of the graph, and one that holds a
\* triple twice.
KbTrains == SubSeqsUpTo(KGSeq, MaxTrain) \cup { <<KGSeq[1], KGSeq[2], KGSeq[1]>> }

\* The validation and test sets of the dataset split.
KbValidTest == { <<<<>>, <<>>>>, << <<KGSeq[4]>>, <<KGSeq[2]>> >> }

RECURSIVE Concat(_)
\* The sequences of a sequence, one after the other.
Concat(ss) == IF ss = <<>> THEN <<>> ELSE Head(ss) \o Concat(Tail(ss))

\* random.Random(seed).shuffle(train): the copy in the order position -> p.
Shuffled(s, p) == [k \in 1..Len(s) |-> s[p[k]]]

\* ------------------------------------------------ MultiKb.corrupt_entities
\* An entity table is a dict, kept as its items <<name, id>> in insertion
\* order. A name is a base and the suffixes "_{id_set}_{n_part}" added to it.
Name(base) == [base |-> base, suffix |-> <<>>]

\* f"{e}_{self.id_set}_{self.n_part}"
Renamed(e, ids, n) == [e EXCEPT !.suffix = Append(@, <<ids, n>>)]

\* The entity tables of the datasets split: one, two and three entities, and
\* a table of two where the second name reads as the first followed by
\* "_[0]_2".
KbEntityTables ==
    { << <<Name("a"), 0>> >>,
      << <<Name("a"), 0>>, <<Name("b"), 1>> >>,
      << <<Name("a"), 0>>, <<Name("b"), 1>>, <<Name("c"), 2>> >>,
      << <<Name("a"), 0>>, <<Renamed(Name("a"), {0}, 2), 1>> >> }

\* aligned_entities, in halves: 0.0, 0.5 and 1.0.
AlignedHalves == {0, 1, 2}

\* round(x) of Python for x = twice / 2: the nearest whole number, the even
\* one of the two when x is halfway.
round(twice) ==
    IF twice % 2 = 0 THEN twice \div 2
    ELSE IF ((twice - 1) \div 2) % 2 = 0 THEN (twice - 1) \div 2 ELSE (twice + 1) \div 2

\* n_entities_to_corrupt = round(n_entities * (1 - self.aligned_entities))
n_entities_to_corrupt(n_entities, aligned) == round(n_entities * (2 - aligned))

\* rng.choice(range(n_entities), n_entities_to_corrupt, replace=False): the
\* draws it can return, sequences of k different ids below n.
Choices(n, k) ==
    { c \in [1..k -> 0..(n - 1)] : \A i, j \in 1..k : c[i] = c[j] => i = j }

\* {value: key for key, value in entities.items()}, read at an id: the name
\* of the last item that holds it.
e_prime(d, id_e) ==
    d[CHOOSE i \in 1..Len(d) :
          d[i][2] = id_e /\ \A j \in (i + 1)..Len(d) : d[j][2] # id_e][1]

\* entities.pop(e)
dict_pop(d, e) == SelectSeq(d, LAMBDA item : item[1] # e)

\* entities[key] = value: the item of that key is updated where it is, or a
\* new item is added at the end.
dict_set(d, key, value) ==
    IF \E i \in 1..Len(d) : d[i][1] = key
    THEN [i \in 1..Len(d) |-> IF d[i][1] = key THEN <<key, value>> ELSE d[i]]
    ELSE Append(d, <<key, value>>)

\* The loop of corrupt_entities as far as it gets: the table, and whether a
\* KeyError was raised.
LoopResult(d, err) == [table |-> d, raised |-> err]

RECURSIVE corrupt_loop(_, _, _, _, _)
\* for id_e in entities_id_corrupt: the entity of that id in the table as it
\* was before the loop is taken out and put back under its new name. e_prime
\* raises KeyError at an id the table did not hold, pop at a name the table
\* holds no more. The table is the one passed to corrupt_entities.
corrupt_loop(d, before, drawn, ids, n) ==
    IF drawn = <<>> THEN LoopResult(d, FALSE)
    ELSE IF \A i \in 1..Len(before) : before[i][2] # Head(drawn) THEN LoopResult(d, TRUE)
    ELSE LET e == e_prime(before, Head(drawn))
         IN  IF \A i \in 1..Len(d) : d[i][1] # e THEN LoopResult(d, TRUE)
             ELSE corrupt_loop(dict_set(dict_pop(d, e), Renamed(e, ids, n), Head(drawn)),
                               before, Tail(drawn), ids, n)

RECURSIVE sorted_by_value(_)
\* sorted(entities.items(), key=lambda item: item[1]): a stable sort.
sorted_by_value(d) ==
    IF d = <<>> THEN <<>>
    ELSE LET rest == sorted_by_value(SubSeq(d, 1, Len(d) - 1))
             last == d[Len(d)]
             k == Cardinality({ i \in 1..Len(rest) : rest[i][2] <= last[2] })
         IN  SubSeq(rest, 1, k) \o <<last>> \o SubSeq(rest, k + 1, Len(rest))

\* What corrupt_entities leaves in the dict it was passed: the loop works on
\* that dict itself.
corrupt_in_place(d, drawn, ids, n) == corrupt_loop(d, d, drawn, ids, n).table

\* What corrupt_entities returns: a new dict of the items sorted by id.
corrupt_entities(d, drawn, ids, n) ==
    sorted_by_value(corrupt_loop(d, d, drawn, ids, n).table)

\* The ids RandomState(seed).choice draws for a table of n entities: the
\* generator is seeded, so the draw is the same for the same n and number of
\* ids; it is not known for another n.
Draws(n, k) ==
    IF n = seeded_choice.n_entities THEN {seeded_choice.drawn} ELSE Choices(n, k)

\* The MultiKb objects built from one dataset.
KbInstances == {1, 2}

\* The list objects split_train handles: the list passed as train, which is
\* dataset.train, and copies of it.
PassedTrain == [list |-> "dataset.train", copy |-> FALSE]

\* train = copy.deepcopy(train): the local name is bound to a new list.
no_copy(obj) == obj

deepcopy(obj) == [obj EXCEPT !.copy = TRUE]

\* random.Random(seed).shuffle(train): the orders the shuffle of a list of n
\* items can come out in; the generator is seeded, so there is one.
ShuffleOutcomesUnseeded(n) == Perms(n)

ShuffleOutcomes(n) == {seeded_order}

\* np.array_split(train, n_part): n_part frames, the first len % n_part of
\* them of len // n_part + 1 rows, the others of len // n_part rows.
array_splitEven(s, n) ==
    [k \in 1..n |-> SubSeq(s, (k - 1) * (Len(s) \div n) + 1, k * (Len(s) \div n))]

array_split(s, n) ==
    LET each == Len(s) \div n
        extras == Len(s) % n
        start(k) == (k - 1) * each + Min(k - 1, extras)
    IN  [k \in 1..n |-> SubSeq(s, start(k) + 1, start(k + 1))]

\* [(h, r, t) for h, r, t in x]
format_triples(x) == [k \in 1..Len(x) |-> <<x[k][1], x[k][2], x[k][3]>>]

\* Dataset.__init__ keeps the train, valid and test sets it is given.
DatasetFields(tr, va, te) == [train |-> tr, valid |-> va, test |-> te]

NoFields == DatasetFields(<<>>, <<>>, <<>>)

\* MultiKb.true_triples
MultiKb_true_triplesSelectedOnly == multikb.train \o multikb.test \o multikb.valid

MultiKb_true_triples ==
    multikb.train \o excluded_triples \o multikb.test \o multikb.valid

\* MultiKb.train_triples
MultiKb_train_triples == multikb.train \o excluded_triples

kbUnused ==
    /\ kb_dataset = NoFields
    /\ n_part = 1
    /\ id_set = {}
    /\ kb_pc = "new"
    /\ frames = <<>>
    /\ frame_i = 0
    /\ splitted_train = <<>>
    /\ excluded_triples = <<>>
    /\ multikb = NoFields
    /\ seeded_order = <<>>
    /\ seeded_choice = [n_entities |-> 0, drawn |-> <<>>]
    /\ built = <<>>
    /\ aligned_entities = 2
    /\ kb_entities = <<>>
    /\ multikb_entities = <<>>

\* split_train up to its loop: the copy of train is shuffled and split. The
\* shuffle is in place: it reorders dataset.train itself when the local
\* name `train` still names that list.
split_train ==
    /\ kb_pc = "new"
    /\ \E p \in ShuffleOutcomes(Len(kb_dataset.train)) :
          LET local == deepcopy(PassedTrain)
              shuffled == Shuffled(kb_dataset.train, p)
          IN  /\ frames' = array_split(shuffled, n_part)
              /\ kb_dataset' = IF local = PassedTrain
                                THEN [kb_dataset EXCEPT !.train = shuffled]
                                ELSE kb_dataset
    /\ frame_i' = 0
    /\ splitted_train' = <<>>
    /\ excluded_triples' = <<>>
    /\ kb_pc' = "split"
    /\ UNCHANGED <<n_part, id_set, multikb, seeded_order, seeded_choice, built,
                   aligned_entities, kb_entities, multikb_entities>>
    /\ UNCHANGED exceptKb

\* One pass of the loop of split_train: frame i goes to the selected part
\* when i is in id_set, to the excluded triples otherwise.
split_train_frame ==
    /\ kb_pc = "split"
    /\ frame_i < Len(frames)
    /\ IF frame_i \in id_set
       THEN /\ splitted_train' = splitted_train \o format_triples(frames[frame_i + 1])
            /\ UNCHANGED excluded_triples
       ELSE /\ excluded_triples' = excluded_triples \o format_triples(frames[frame_i + 1])
            /\ UNCHANGED splitted_train
    /\ frame_i' = frame_i + 1
    /\ UNCHANGED <<kb_dataset, n_part, id_set, kb_pc, frames, multikb, seeded_order,
                   seeded_choice, built, aligned_entities, kb_entities, multikb_entities>>
    /\ UNCHANGED exceptKb

\* split_train returns; MultiKb.__init__ keeps the excluded triples and hands
\* the selected part, with the valid and test sets, to Dataset.__init__.
MultiKb_init ==
    /\ kb_pc = "split"
    /\ frame_i = Len(frames)
    /\ \E drawn \in Draws(Len(kb_entities),
                           n_entities_to_corrupt(Len(kb_entities), aligned_entities)) :
          /\ kb_entities' = corrupt_in_place(kb_entities, drawn, id_set, n_part)
          /\ IF corrupt_loop(kb_entities, kb_entities, drawn, id_set, n_part).raised
             THEN /\ kb_pc' = "KeyError"
                  /\ UNCHANGED <<multikb, multikb_entities, built>>
             ELSE /\ multikb_entities' = corrupt_entities(kb_entities, drawn, id_set, n_part)
                  /\ multikb' = DatasetFields(splitted_train, kb_dataset.valid,
                                              kb_dataset.test)
                  /\ built' = Append(built, [id_set |-> id_set, train |-> splitted_train,
                                              excluded_triples |-> excluded_triples])
                  /\ kb_pc' = "built"
    /\ UNCHANGED <<kb_dataset, n_part, id_set, frames, frame_i, splitted_train,
                   excluded_triples, seeded_order, seeded_choice, aligned_entities>>
    /\ UNCHANGED exceptKb

\* Another MultiKb is built from the same dataset, with the same n_part and
\* another id_set.
MultiKb_another ==
    /\ kb_pc = "built"
    /\ Len(built) < Cardinality(KbInstances)
    /\ id_set' \in SUBSET (0..(MaxParts - 1))
    /\ kb_pc' = "new"
    /\ frames' = <<>>
    /\ frame_i' = 0
    /\ splitted_train' = <<>>
    /\ excluded_triples' = <<>>
    /\ multikb' = NoFields
    /\ multikb_entities' = <<>>
    /\ UNCHANGED <<kb_dataset, n_part, seeded_order, seeded_choice, built,
                   aligned_entities, kb_entities>>
    /\ UNCHANGED exceptKb

\* ------------------------------------------ find_treshold and accuracy
\* The longest list of triplets classified.
MaxSamples == 3

\* A threshold: None, or a score.
None == [is_none |-> TRUE, value |-> 0]

Some(v) == [is_none |-> FALSE, value |-> v]

\* make_prediction(model, dataset=X): the model's score of every triplet, in
\* the order of X.
make_prediction(mdl, xs) == [i \in 1..Len(xs) |-> Score(mdl, xs[i])]

\* _get_positive_negative: the predictions of the triplets labelled 1, and
\* those of the others, in order.
get_positive(pred, labels) == Pick(pred, { i \in 1..Len(pred) : labels[i] = 1 })

get_negative(pred, labels) == Pick(pred, { i \in 1..Len(pred) : labels[i] # 1 })

\* np.count_nonzero(a >= threshold), np.count_nonzero(a < threshold)
CountAtLeast(a, thr) == Cardinality({ i \in 1..Len(a) : a[i] >= thr })

CountBelow(a, thr) == Cardinality({ i \in 1..Len(a) : a[i] < thr })

\* _accuracy: (tp + tn) / (len(positive) + len(negative)), as what the call
\* does: a value (a fraction), a TypeError when an array that is not empty is
\* compared with None, a ZeroDivisionError when there is no prediction.
AccuracyReturn(v) == [outcome |-> "returned", value |-> v]

AccuracyRaise(e) == [outcome |-> e, value |-> <<0, 1>>]

_accuracy(positive, negative, threshold) ==
    IF threshold.is_none /\ Len(positive) + Len(negative) > 0
    THEN AccuracyRaise("TypeError")
    ELSE IF Len(positive) + Len(negative) = 0
    THEN AccuracyRaise("ZeroDivisionError")
    ELSE AccuracyReturn(Fraction(CountAtLeast(positive, threshold.value)
                                     + CountBelow(negative, threshold.value),
                                 Len(positive) + Len(negative)))

\* accuracy > best_accuracy, for two fractions
GreaterOrEqual(x, z) == x[1] * z[2] >= z[1] * x[2]

Greater(x, z) == x[1] * z[2] > z[1] * x[2]

NoDict == [threshold |-> None, accuracy |-> <<0, 1>>]

accUnused ==
    /\ X = <<>>
    /\ y = <<>>
    /\ y_pred = <<>>
    /\ acc_pc = "idle"
    /\ thr_i = 0
    /\ best_treshold = None
    /\ best_accuracy = <<0, 1>>
    /\ best = NoDict
    /\ checked = AccuracyRaise("none")

\* find_treshold up to the loop of _compute_best_treshold.
find_treshold ==
    /\ acc_pc = "idle"
    /\ y_pred' = make_prediction(model, X)
    /\ best_accuracy' = <<0, 1>>
    /\ best_treshold' = None
    /\ thr_i' = 0
    /\ acc_pc' = "_compute_best_treshold"
    /\ UNCHANGED <<X, y, best, checked>>
    /\ UNCHANGED exceptAcc

\* One pass of the loop of _compute_best_treshold: the next prediction is
\* tried as threshold.
_compute_best_treshold ==
    /\ acc_pc = "_compute_best_treshold"
    /\ thr_i < Len(y_pred)
    /\ LET threshold == Some(y_pred[thr_i + 1])
           accuracy == _accuracy(get_positive(y_pred, y), get_negative(y_pred, y),
                                 threshold).value
       IN  IF Greater(accuracy, best_accuracy)
           THEN /\ best_treshold' = threshold
                /\ best_accuracy' = accuracy
           ELSE UNCHANGED <<best_treshold, best_accuracy>>
    /\ thr_i' = thr_i + 1
    /\ UNCHANGED <<X, y, y_pred, acc_pc, best, checked>>
    /\ UNCHANGED exceptAcc

\* return {'threshold': best_treshold, 'accuracy': best_accuracy}
find_treshold_return ==
    /\ acc_pc = "_compute_best_treshold"
    /\ thr_i = Len(y_pred)
    /\ best' = [threshold |-> best_treshold, accuracy |-> best_accuracy]
    /\ acc_pc' = "found"
    /\ UNCHANGED <<X, y, y_pred, thr_i, best_treshold, best_accuracy, checked>>
    /\ UNCHANGED exceptAcc

\* accuracy(model, X, y, threshold) with the threshold find_treshold returned.
accuracy ==
    /\ acc_pc = "found"
    /\ LET pred == make_prediction(model, X)
       IN  checked' = _accuracy(get_positive(pred, y), get_negative(pred, y),
                                best.threshold)
    /\ acc_pc' = "checked"
    /\ UNCHANGED <<X, y, y_pred, thr_i, best_treshold, best_accuracy, best>>
    /\ UNCHANGED exceptAcc

\* ---------------------------------------------------------- specification
\* The state after FetchDataset(train, negative_sample_size, valid, test,
\* batch_size, shuffle): a RandomSampler cannot be built over no item, so a
\* shuffled stream has a non-empty training set.
Init ==
    /\ entities = IdTable("e", NumEntities)
    /\ relations = IdTable("r", NumRelations)
    /\ evalUnused
    /\ parUnused
    /\ samplerUnused
    /\ kbUnused
    /\ accUnused
    /\ train \in SeqsUpTo(KG, MaxTrain)
    /\ valid \in ValidInputs
    /\ test \in TestInputs
    /\ batch_size \in 1..MaxBatchSize
    /\ shuffle \in BOOLEAN
    /\ shuffle => /\ Len(train) \in 1..MaxShuffledTrain
                  /\ valid = <<>>
                  /\ test = <<>>
                  /\ batch_size = 1
    /\ n_entity = NEntity(train, valid, test)
    /\ n_relation = NRelation(train, valid, test)
    /\ step = 0
    /\ fetch = [m \in TrainModes |-> NewGenerator]
    /\ pc = "idle"
    /\ data = Outcome("none", NoBatch)
    /\ history = <<>>

Next ==
    \/ FetchDataset_next
    \/ \E m \in TrainModes : fetch_iter(m)
    \/ \E m \in TrainModes : fetch_yield(m)
    \/ \E m \in TrainModes : fetch_exhausted(m)

Spec == Init /\ [][Next]_vars

\* A pull that has begun keeps running: the generator's steps are the
\* caller's own thread of control.
LiveSpec ==
    /\ Init
    /\ [][Next]_vars
    /\ \A m \in TrainModes :
          /\ WF_vars(fetch_iter(m))
          /\ WF_vars(fetch_yield(m))
          /\ WF_vars(fetch_exhausted(m))

\* The datasets evaluated and the true triples an Evaluation is built with:
\* none (raw metrics), the dataset itself, or the whole graph.
Datasets == SubSeqsUpTo(KGSeq, MaxDataset)

\* An Evaluation as constructed, with the model and the dataset of its calls.
EvalInputs ==
    /\ entities = IdTable("e", NumEntities)
    /\ relations = IdTable("r", NumRelations)
    /\ dataset \in Datasets
    /\ true_triples \in {<<>>, dataset, KGSeq}
    /\ eval_batch_size \in 1..MaxBatchSize
    /\ model \in ScoreModels
    /\ epc = "idle"
    /\ test_sets = <<>>
    /\ cursor = 0
    /\ metrics = NewMetrics
    /\ rows = <<>>
    /\ ranks = NoRanks
    /\ scored = <<>>
    /\ ranked = <<>>
    /\ result = NoResult
    /\ streamUnused
    /\ parUnused
    /\ samplerUnused
    /\ kbUnused
    /\ accUnused

\* One Evaluation, whose caller compares it with no other.
EvalInit ==
    /\ EvalInputs
    /\ raw_call = NoRaw

EvalNext ==
    \/ eval
    \/ eval_relations
    \/ compute_score
    \/ eval_return
    \/ eval_relations_return

EvalSpec == EvalInit /\ [][EvalNext]_vars

\* The same model and dataset are evaluated by an Evaluation built without
\* true triples, then by one built with true triples. One triple is evaluated,
\* in one batch: the rank of a row depends on no other row, and eval averages
\* the ranks of its head row and its tail row.
FilterInit ==
    /\ EvalInputs
    /\ raw_call = RawPending
    /\ true_triples = <<>>
    /\ Len(dataset) = 1
    /\ eval_batch_size = 1

FilterNext ==
    \/ EvalNext
    \/ Evaluation_true_triples

FilterSpec == FilterInit /\ [][FilterNext]_vars

\* Two callers share one Evaluation, one model and one dataset.
ParInit ==
    /\ entities = IdTable("e", NumEntities)
    /\ relations = IdTable("r", NumRelations)
    /\ dataset \in ParDatasets
    /\ true_triples \in {<<>>, KGSeq}
    /\ eval_batch_size \in {1, 2}
    /\ model \in ParModels
    /\ epc = "idle"
    /\ test_sets = <<>>
    /\ cursor = 0
    /\ metrics = NewMetrics
    /\ rows = <<>>
    /\ ranks = NoRanks
    /\ scored = <<>>
    /\ ranked = <<>>
    /\ raw_call = NoRaw
    /\ result = NoResult
    /\ streamUnused
    /\ parUnused
    /\ samplerUnused
    /\ kbUnused
    /\ accUnused

ParNext ==
    \/ \E p \in Callers : eval_by(p)
    \/ \E p \in Callers : eval_relations_by(p)
    \/ \E p \in Callers : compute_score_by(p)
    \/ \E p \in Callers : return_to(p)

ParSpec == ParInit /\ [][ParNext]_vars

\* Two FetchDataset(train, negative_sample_size, seed=seed) read in order by
\* a single worker.
SamplerInit ==
    /\ entities = IdTable("e", NumEntities)
    /\ relations = IdTable("r", NumRelations)
    /\ evalUnused
    /\ parUnused
    /\ train \in SamplerTrains
    /\ valid = <<>>
    /\ test = <<>>
    /\ n_entity = NEntity(train, valid, test)
    /\ n_relation = NRelation(train, valid, test)
    /\ batch_size = 1
    /\ shuffle = FALSE
    /\ step = 0
    /\ fetch = [m \in TrainModes |-> NewGenerator]
    /\ pc = "idle"
    /\ data = Outcome("none", NoBatch)
    /\ history = <<>>
    /\ seed \in Seeds
    /\ negative_sample_size \in 1..MaxNegatives
    /\ avoid_known \in BOOLEAN
    /\ samplers = [k \in Instances \X TrainModes |-> NewSampler(k[2], seed)]
    /\ kbUnused
    /\ accUnused

SamplerNext == \E i \in Instances : \E m \in TrainModes : getitem(i, m)

SamplerSpec == SamplerInit /\ [][SamplerNext]_vars

\* MultiKb(dataset, id_set, n_part, aligned_entities) is about to be built.
\* The entity tables and aligned_entities are varied for the datasets of at
\* most one training triple; the others have two entities, all aligned.
KbInit ==
    /\ entities = IdTable("e", NumEntities)
    /\ relations = IdTable("r", NumRelations)
    /\ evalUnused
    /\ parUnused
    /\ streamUnused
    /\ samplerUnused
    /\ \E tr \in KbTrains : \E vt \in KbValidTest :
          kb_dataset = DatasetFields(tr, vt[1], vt[2])
    /\ n_part \in 1..MaxParts
    /\ id_set \in SUBSET (0..(MaxParts - 1))
    /\ kb_pc = "new"
    /\ frames = <<>>
    /\ frame_i = 0
    /\ splitted_train = <<>>
    /\ excluded_triples = <<>>
    /\ multikb = NoFields
    /\ seeded_order \in Perms(Len(kb_dataset.train))
    /\ kb_entities \in KbEntityTables
    /\ aligned_entities \in AlignedHalves
    /\ \E c \in Choices(Len(kb_entities),
                          n_entities_to_corrupt(Len(kb_entities), aligned_entities)) :
          seeded_choice = [n_entities |-> Len(kb_entities), drawn |-> c]
    /\ (Len(kb_dataset.train) > 1 \/ kb_dataset.valid # <<>>) =>
          /\ kb_entities = << <<Name("a"), 0>>, <<Name("b"), 1>> >>
          /\ aligned_entities = 2
    /\ built = <<>>
    /\ multikb_entities = <<>>
    /\ accUnused

KbNext ==
    \/ split_train
    \/ split_train_frame
    \/ MultiKb_init
    \/ MultiKb_another

KbSpec == KbInit /\ [][KbNext]_vars

\* find_treshold(model, X, y, batch_size) is about to be called: X holds
\* triplets of the graph, y a label 0 or 1 for each.
AccInit ==
    /\ entities = IdTable("e", NumEntities)
    /\ relations = IdTable("r", NumRelations)
    /\ true_triples = <<>>
    /\ eval_batch_size = 1
    /\ model \in ScoreModels
    /\ dataset = <<>>
    /\ epc = "idle"
    /\ test_sets = <<>>
    /\ cursor = 0
    /\ metrics = NewMetrics
    /\ rows = <<>>
    /\ ranks = NoRanks
    /\ scored = <<>>
    /\ ranked = <<>>
    /\ raw_call = NoRaw
    /\ result = NoResult
    /\ parUnused
    /\ streamUnused
    /\ samplerUnused
    /\ kbUnused
    /\ X \in SeqsUpTo(KG, MaxSamples)
    /\ y \in [1..Len(X) -> {0, 1}]
    /\ y_pred = <<>>
    /\ acc_pc = "idle"
    /\ thr_i = 0
    /\ best_treshold = None
    /\ best_accuracy = <<0, 1>>
    /\ best = NoDict
    /\ checked = AccuracyRaise("none")

AccNext ==
    \/ find_treshold
    \/ _compute_best_treshold
    \/ find_treshold_return
    \/ accuracy

AccSpec == AccInit /\ [][AccNext]_vars





\* ================================================================ claims
\* The batches of mode m returned before the k-th one.
Earlier(m, k) == { j \in 1..(k - 1) : history[j].mode = m }

\* The last batch of mode m returned before the k-th one (Earlier is not empty).
Previous(m, k) == CHOOSE j \in Earlier(m, k) : \A i \in Earlier(m, k) : i <= j

\* C1: every pull returns one batch, and the k-th batch returned is a
\* tail-batch when k is odd and a head-batch when k is even; the first is a
\* tail-batch.
C1_Alternation ==
    /\ Len(history) = (IF pc = "idle" THEN step ELSE step - 1)
    /\ \A k \in 1..Len(history) :
          history[k].mode = (IF k % 2 = 1 THEN "tail-batch" ELSE "head-batch")

C1_Witness ==
    /\ Len(history) >= 4
    /\ history[1].mode = "tail-batch"
    /\ history[4].mode = "head-batch"

\* C2: no pull reports StopIteration and no generator ever finishes; a
\* sub-stream's first batch is the first of a pass, the batch after the last
\* batch of a pass is the first batch of a new pass (at the start of the
\* training set when the order is sequential), and any other batch is the
\* next of the same pass.
C2_Restartable ==
    /\ data.outcome # "StopIteration"
    /\ \A m \in TrainModes : fetch[m].state # "done"
    /\ \A k \in 1..Len(history) :
          LET b == history[k]
              last == (Len(train) + batch_size - 1) \div batch_size
          IN  /\ Earlier(b.mode, k) = {} => b.index = 1
              /\ Earlier(b.mode, k) # {} =>
                    LET prev == history[Previous(b.mode, k)]
                    IN  b.index = (IF prev.index = last THEN 1 ELSE prev.index + 1)
              /\ (b.index = 1 /\ ~shuffle) => b.positions[1] = 1

\* A sub-stream of more than one batch per pass has wrapped.
C2_Witness ==
    \E k \in 1..Len(history) :
        /\ Earlier(history[k].mode, k) # {}
        /\ history[Previous(history[k].mode, k)].index >= 2
        /\ history[k].index = 1
        /\ data = Outcome("returned", history[k])

\* C3 as claimed: every batch returned carries exactly batch_size positives.
C3_FullBatches ==
    \A k \in 1..Len(history) : Len(history[k].positive_sample) = batch_size

\* C3 as amended: a batch carries batch_size positives unless it is the last
\* batch of a pass over a training set whose size is no multiple of
\* batch_size; that batch carries the len(train) mod batch_size triples that
\* remain. No batch is empty.
C3_BatchSizes ==
    \A k \in 1..Len(history) :
        LET b == history[k]
            n == Len(b.positive_sample)
        IN  /\ n = Len(b.positions)
            /\ n >= 1
            /\ n = (IF b.index * batch_size <= Len(train)
                    THEN batch_size
                    ELSE Len(train) % batch_size)

\* A short batch has been returned in the middle of the run, after a full one.
C3_Witness ==
    \E k \in 2..Len(history) :
        /\ Len(history[k].positive_sample) < batch_size
        /\ Len(history[k - 1].positive_sample) = batch_size
        /\ history[k].index = 2

\* C4 as claimed: every pull that has begun returns to the caller.
C4_PullTerminates == (pc # "idle") ~> (pc = "idle")

\* C5 as claimed: n_entity and n_relation are the cardinalities of the id
\* tables.
C5_TableCardinality ==
    /\ n_entity = Cardinality(DOMAIN entities)
    /\ n_relation = Cardinality(DOMAIN relations)

\* C5 as amended: n_entity is the number of distinct ids that occur as the
\* head or the tail of a train, valid or test triple and n_relation the
\* number of distinct relation ids of these triples; an id of the tables that
\* occurs in no triple is not counted.
C5_InferredFromTriples ==
    /\ n_entity = Cardinality({ e \in 0..(NumEntities - 1) :
                                  \E t \in AllTriples : t[1] = e \/ t[3] = e })
    /\ n_relation = Cardinality({ r \in 0..(NumRelations - 1) :
                                    \E t \in AllTriples : t[2] = r })

\* An entity of the table occurs in no triple and is not counted, while a
\* tail that is nobody's head is.
C5_Witness ==
    /\ \E nm \in DOMAIN entities :
          \A t \in AllTriples : t[1] # entities[nm] /\ t[3] # entities[nm]
    /\ \E t \in AllTriples : \A u \in AllTriples : u[1] # t[3]
    /\ n_entity >= 2
    /\ n_entity < Cardinality(DOMAIN entities)

\* C6 as claimed: once the stream is built, every head and tail id is below
\* n_entity and every relation id below n_relation.
C6_IdsInRange ==
    \A t \in AllTriples :
        /\ t[1] \in 0..(n_entity - 1)
        /\ t[3] \in 0..(n_entity - 1)
        /\ t[2] \in 0..(n_relation - 1)

\* ---------------------------------------------------- evaluation claims
\* The true answer of a row: the head in head-batch, the relation in
\* relation-batch, the tail in tail-batch.
TrueAnswer(row) ==
    CASE row.mode = "head-batch" -> row.positive[1]
      [] row.mode = "relation-batch" -> row.positive[2]
      [] row.mode = "tail-batch" -> row.positive[3]

\* The candidates of a row that are other known-true completions.
KnownOthers(row) ==
    { c \in DOMAIN row.score \ {TrueAnswer(row)} :
        Substitute(row.positive, row.mode, c) \in Range(true_triples) }

RECURSIVE SumTo(_, _)
\* f[1] + ... + f[n]
SumTo(f, n) == IF n = 0 THEN 0 ELSE f[n] + SumTo(f, n - 1)

RECURSIVE Factorial(_)
Factorial(n) == IF n = 0 THEN 1 ELSE n * Factorial(n - 1)

\* The scores of the ranking example, for the candidates 0..3.
ExampleScores == [c \in 0..3 |-> <<5, 9, 1, 3>>[c + 1]]

\* C7: the rank of every row is the 1-indexed position of the true answer in
\* the candidates sorted by biased score, descending: it lies in
\* 1..number of candidates, after every candidate of a higher biased score
\* and before every candidate of a lower one, and is 1 when the true answer
\* scores best; the scores [5, 9, 1, 3] with true answer 1 give rank 1.
C7_RankIsPosition ==
    /\ \A i \in 1..Len(rows) :
          LET row == rows[i]
              s == row.score
              a == TrueAnswer(row)
              higher == Cardinality({ c \in DOMAIN s : s[c] > s[a] })
              notlower == Cardinality({ c \in DOMAIN s : s[c] >= s[a] })
          IN  /\ row.ranking \in 1..Cardinality(DOMAIN s)
              /\ higher < row.ranking
              /\ row.ranking <= notlower
              /\ (\A c \in DOMAIN s \ {a} : s[c] < s[a]) => row.ranking = 1
    /\ \A p \in Argsort(ExampleScores) : Ranking(Nonzero(p, 1)) = 1

\* A true head that two candidates beat, and none ties with, has rank 3.
C7_Witness ==
    \E i \in 1..Len(rows) :
        /\ rows[i].mode = "head-batch"
        /\ rows[i].ranking = 3
        /\ Cardinality({ c \in DOMAIN rows[i].score :
                           rows[i].score[c] >= rows[i].score[TrueAnswer(rows[i])] }) = 3

\* C8: in head-batch and tail-batch rows, no other known-true completion of
\* the fixed pair is ranked above the true answer, whatever the model's
\* scores, and the true answer's biased score is its model score.
C8_FilteredNeverAbove ==
    \A i \in 1..Len(rows) :
        LET row == rows[i]
            a == TrueAnswer(row)
        IN  row.mode \in {"head-batch", "tail-batch"} =>
               /\ row.filtered_above = {}
               /\ row.score[a] = Score(model, row.positive)
               /\ \A c \in KnownOthers(row) : row.score[c] < row.score[a]
               /\ row.ranking <= Cardinality(DOMAIN row.score) - Cardinality(KnownOthers(row))

\* A known-true tail that the model scores above the true tail has a biased
\* score below the true tail's.
C8_Witness ==
    \E i \in 1..Len(rows) :
        /\ rows[i].mode = "tail-batch"
        /\ \E c \in KnownOthers(rows[i]) :
              /\ Score(model, Substitute(rows[i].positive, rows[i].mode, c))
                    > Score(model, rows[i].positive)
              /\ rows[i].score[c] < rows[i].score[TrueAnswer(rows[i])]

\* C9: in every row scored, in every mode, the true answer is one of the
\* candidates and is found exactly once in the sorted candidates; the
\* assertion never fails.
C9_ExactlyOnce ==
    /\ epc # "AssertionError"
    /\ \A i \in 1..Len(rows) :
          /\ TrueAnswer(rows[i]) \in DOMAIN rows[i].score
          /\ rows[i].found = 1

\* A relation evaluation has returned after a row whose head id is no
\* relation id.
C9_Witness ==
    /\ result.call = "eval_relations"
    /\ \E i \in 1..Len(rows) :
          /\ rows[i].mode = "relation-batch"
          /\ rows[i].positive[1] >= Cardinality(DOMAIN relations)
          /\ rows[i].found = 1

\* v ten-thousandths is p / q rounded to four decimals.
Rounded(v, p, q) == 2 * Abs(10000 * p - v * q) <= q

\* C10: each metric is the mean over the ranks accumulated by the call: MR of
\* the ranks, MRR of their reciprocals, HITS@k of the indicator rank <= k; a
\* call returns these means rounded to four decimals; ranks 1 and 4 give
\* MRR 0.625, MR 2.5, HITS@3 0.5.
C10_RunningMeans ==
    LET top == Cardinality(DOMAIN ranks)
        scale == Factorial(top)
        n == SumTo(ranks, top)
        sum == [name \in MetricNames |->
                  CASE name = "MRR" -> SumTo([r \in 1..top |-> (scale \div r) * ranks[r]], top)
                    [] name = "MR" -> scale * SumTo([r \in 1..top |-> r * ranks[r]], top)
                    [] name = "HITS@1" ->
                         scale * SumTo([r \in 1..top |-> IF r <= 1 THEN ranks[r] ELSE 0], top)
                    [] name = "HITS@3" ->
                         scale * SumTo([r \in 1..top |-> IF r <= 3 THEN ranks[r] ELSE 0], top)
                    [] name = "HITS@10" ->
                         scale * SumTo([r \in 1..top |-> IF r <= 10 THEN ranks[r] ELSE 0], top)]
    IN  /\ \A name \in MetricNames :
              /\ metrics[name].n = n
              /\ metrics[name].mean[1] * scale * n = sum[name] * metrics[name].mean[2]
        /\ (result.call = "eval" /\ n > 0) =>
              \A name \in MetricNames :
                  Rounded(result.values[name], sum[name], scale * n)
        /\ (result.call = "eval_relations" /\ n > 0) =>
              \A name \in MetricNames :
                  Rounded(result.values[<<name, "_relations">>], sum[name], scale * n)
        /\ (result.call = "eval" /\ n = 2 /\ ranks[1] = 1 /\ ranks[4] = 1) =>
              /\ result.values["MRR"] = 6250
              /\ result.values["MR"] = 25000
              /\ result.values["HITS@3"] = 5000

\* An evaluation of one triple has returned with the ranks 1 and 4.
C10_Witness ==
    /\ result.call = "eval"
    /\ SumTo(ranks, Cardinality(DOMAIN ranks)) = 2
    /\ ranks[1] = 1
    /\ ranks[4] = 1
    /\ result.values["MRR"] = 6250
    /\ metrics["MR"].mean = <<5, 2>>

\* How many times the call under way has ranked the triple at position i of
\* the dataset in mode m.
Times(m, i) == Cardinality({ k \in 1..Len(scored) : scored[k] = <<m, i>> })

\* C11: an entity evaluation of a dataset of n triples has, when it returns,
\* ranked every triple exactly once in head-batch and exactly once in
\* tail-batch and nothing else, 2n ranks in all, and each of the five shared
\* metrics has been updated with every one of them.
C11_TwoRanksPerTriple ==
    /\ Len(scored) = SumTo(ranks, Cardinality(DOMAIN ranks))
    /\ \A name \in MetricNames : metrics[name].n = Len(scored)
    /\ result.call = "eval" =>
          /\ Len(scored) = 2 * Len(dataset)
          /\ \A k \in 1..Len(scored) :
                /\ scored[k][1] \in {"head-batch", "tail-batch"}
                /\ scored[k][2] \in 1..Len(dataset)
          /\ \A i \in 1..Len(dataset) :
                /\ Times("head-batch", i) = 1
                /\ Times("tail-batch", i) = 1

\* An entity evaluation of two triples has returned with four ranks.
C11_Witness ==
    /\ result.call = "eval"
    /\ Len(dataset) = 2
    /\ Len(scored) = 4
    /\ metrics["MR"].n = 4

\* The names under which eval_relations returns the five metrics.
RelationNames == { <<name, "_relations">> : name \in MetricNames }

\* C14: a relation evaluation ranks only in relation-batch mode, the true
\* answer of a row being the relation of its triple; it starts from its own
\* empty metric set; when it returns it has ranked every triple of the
\* dataset exactly once and returns exactly the five metrics, under the names
\* MRR_relations, MR_relations, HITS@1_relations, HITS@3_relations and
\* HITS@10_relations.
C14_RelationEvaluation ==
    /\ epc = "eval_relations" \/ result.call = "eval_relations" =>
          /\ \A k \in 1..Len(scored) : scored[k][1] = "relation-batch"
          /\ \A name \in MetricNames : metrics[name].n = Len(scored)
          /\ \A i \in 1..Len(rows) :
                LET row == rows[i]
                    s == row.score
                    r == row.positive[2]
                IN  /\ row.mode = "relation-batch"
                    /\ DOMAIN s = 0..(Cardinality(DOMAIN relations) - 1)
                    /\ Cardinality({ c \in DOMAIN s : s[c] > s[r] }) < row.ranking
                    /\ row.ranking <= Cardinality({ c \in DOMAIN s : s[c] >= s[r] })
    /\ result.call = "eval_relations" =>
          /\ Len(scored) = Len(dataset)
          /\ \A i \in 1..Len(dataset) : Times("relation-batch", i) = 1
          /\ DOMAIN result.values = RelationNames
          /\ Cardinality(DOMAIN result.values) = 5
    /\ result.call = "eval" => DOMAIN result.values = MetricNames

\* A relation evaluation of two triples has returned, one of its relations
\* ranked second.
C14_Witness ==
    /\ result.call = "eval_relations"
    /\ Len(dataset) = 2
    /\ Len(scored) = 2
    /\ ranks[2] >= 1
    /\ <<"MRR", "_relations">> \in DOMAIN result.values

\* C15: an Evaluation built without true triples gives no candidate a filter
\* bias: the scores sorted are the model's scores of the candidate triples,
\* and every rank is the position of the true answer among them.
C15_RawMetrics ==
    true_triples = <<>> =>
       \A i \in 1..Len(rows) :
          LET row == rows[i]
              raw == [c \in DOMAIN row.score |->
                         Score(model, Substitute(row.positive, row.mode, c))]
              a == TrueAnswer(row)
          IN  /\ row.score = raw
              /\ row.filtered_above = {}
              /\ Cardinality({ c \in DOMAIN raw : raw[c] > raw[a] }) < row.ranking
              /\ row.ranking <= Cardinality({ c \in DOMAIN raw : raw[c] >= raw[a] })

\* Without true triples, another triple of the graph with the same head and
\* relation is scored above the true tail and ranked before it.
C15_Witness ==
    /\ true_triples = <<>>
    /\ \E i \in 1..Len(rows) :
          /\ rows[i].mode = "tail-batch"
          /\ \E c \in DOMAIN rows[i].score :
                /\ c # rows[i].positive[3]
                /\ Substitute(rows[i].positive, "tail-batch", c) \in KG
                /\ rows[i].score[c] > rows[i].score[rows[i].positive[3]]
          /\ rows[i].ranking >= 2

\* The ranks a call of this kind works through when it runs alone: loader by
\* loader, the triples of the dataset in order, each with the rank its sort
\* gives.
AloneRows(kind) ==
    [j \in 1..(Len(Stream(kind)) * Len(dataset)) |->
        [ranking |-> sorted[<<Stream(kind)[((j - 1) \div Len(dataset)) + 1],
                              dataset[((j - 1) % Len(dataset)) + 1]>>]]]

\* What a call of this kind returns when it runs alone.
AloneValues(kind) == Returned(kind, UpdateAll(NewMetrics, AloneRows(kind)))

\* C12: a call leaves the fields entities, relations, true_triples and
\* batch_size of the Evaluation as they were and starts from empty metric
\* accumulators; the accumulators of a call that has returned hold the ranks
\* of that call and no others; and a call returns the same metrics as the
\* caller's call of the same kind before it.
C12_NoStateAcrossCalls ==
    /\ [](\A p \in Callers :
             LET c == calls[p]
             IN  c.result.call \in Kinds =>
                    /\ \A name \in MetricNames :
                          accs[LocalMetrics(p)][name].n =
                              Len(Stream(c.result.call)) * Len(dataset)
                    /\ c.previous[c.result.call].has =>
                          c.result.value.values = c.previous[c.result.call].values)
    /\ [][/\ entities' = entities
          /\ relations' = relations
          /\ true_triples' = true_triples
          /\ eval_batch_size' = eval_batch_size
          /\ \A p \in Callers :
                (calls[p].epc = "idle" /\ calls'[p].epc \in Kinds) =>
                    \A name \in MetricNames :
                        /\ accs'[LocalMetrics(p)][name].n = 0
                        /\ accs'[LocalMetrics(p)][name].mean = <<0, 1>>]_vars

\* A caller's second entity evaluation has returned what its first did, the
\* true head of (0, 0, 1) ranked last of the candidates it ties with.
C12_Witness ==
    \E p \in Callers :
        /\ calls[p].ncalls = 2
        /\ calls[p].result.call = "eval"
        /\ calls[p].previous["eval"].has
        /\ calls[p].result.value.values = calls[p].previous["eval"].values
        /\ sorted[<<"head-batch", <<0, 0, 1>>>>] = 3
        /\ Len(dataset) = 2

\* C13: whatever the interleaving of the callers' steps, a call returns what
\* it returns when it runs alone.
C13_ParallelEvaluations ==
    \A p \in Callers :
        calls[p].result.call \in Kinds =>
            calls[p].result.value.values = AloneValues(calls[p].result.call)

\* An entity evaluation has returned after scoring batches while the other
\* caller's evaluation, still under way, scored its own.
C13_Witness ==
    \E p \in Callers : \E q \in Callers \ {p} :
        /\ calls[p].result.call = "eval"
        /\ calls[p].overlapped
        /\ calls[q].epc = "eval"
        /\ calls[q].overlapped
        /\ Len(calls[q].test_sets) = 1
        /\ Len(dataset) = 2

\* The samples two samplers have both drawn agree, triple by triple.
SameDraws(k1, k2) ==
    \A j \in 1..Min(Len(samplers[k1].out), Len(samplers[k2].out)) :
        samplers[k1].out[j] = samplers[k2].out[j]

\* C16 as stated: samplers built with the same seed draw the same candidates
\* for the same triple, and so do the head and the tail sub-stream of one
\* FetchDataset.
C16_SameSeedSameNegatives ==
    /\ \A m \in TrainModes : SameDraws(<<1, m>>, <<2, m>>)
    /\ \A i \in Instances : SameDraws(<<i, "head-batch">>, <<i, "tail-batch">>)

\* C16, amended: samplers built with the same seed for the same mode draw the
\* same candidates for the same triple, each sample of the requested size;
\* the head and the tail sub-stream of one FetchDataset draw the same
\* candidates for the same triple when known triples are not avoided, and,
\* when they are, as long as neither has had to draw an id again.
C16_SameSeedSameMode ==
    /\ \A m \in TrainModes : SameDraws(<<1, m>>, <<2, m>>)
    /\ \A k \in DOMAIN samplers : \A j \in 1..Len(samplers[k].out) :
          Len(samplers[k].out[j]) = negative_sample_size
    /\ ~avoid_known =>
          \A i \in Instances : SameDraws(<<i, "head-batch">>, <<i, "tail-batch">>)
    /\ \A i \in Instances :
          (/\ samplers[<<i, "head-batch">>].redrawn = 0
           /\ samplers[<<i, "tail-batch">>].redrawn = 0)
          => SameDraws(<<i, "head-batch">>, <<i, "tail-batch">>)

\* Both FetchDataset have drawn the same tail-batch samples for two triples,
\* and the head sub-stream of the first, avoiding known triples, has drawn
\* another id than its tail sub-stream for the first triple.
C16_Witness ==
    /\ avoid_known
    /\ Len(samplers[<<1, "tail-batch">>].out) = 2
    /\ samplers[<<2, "tail-batch">>].out = samplers[<<1, "tail-batch">>].out
    /\ Len(samplers[<<1, "head-batch">>].out) >= 1
    /\ samplers[<<1, "head-batch">>].out[1] # samplers[<<1, "tail-batch">>].out[1]
    /\ samplers[<<1, "head-batch">>].redrawn + samplers[<<1, "tail-batch">>].redrawn > 0

\* How many times triple t occurs in the sequence s.
Count(s, t) == Cardinality({ k \in 1..Len(s) : s[k] = t })

\* The sequences s and u hold the same triples, each as many times.
SameMultiset(s, u) ==
    /\ Len(s) = Len(u)
    /\ \A t \in Range(s) \cup Range(u) : Count(s, t) = Count(u, t)

\* C17: once MultiKb is built, the selected part followed by the excluded
\* triples holds the triples of the input training set, each as many times:
\* train_triples is a permutation of it, of the same length; and while
\* split_train runs, what it has selected and excluded so far is the
\* frames it has been through.
C17_SplitLosesNothing ==
    /\ kb_pc = "split" =>
          /\ SameMultiset(Concat(frames), kb_dataset.train)
          /\ Len(frames) = n_part
          /\ SameMultiset(splitted_train \o excluded_triples,
                          Concat(SubSeq(frames, 1, frame_i)))
    /\ kb_pc = "built" =>
          /\ SameMultiset(splitted_train \o excluded_triples, kb_dataset.train)
          /\ SameMultiset(MultiKb_train_triples, kb_dataset.train)
          /\ Len(MultiKb_train_triples) = Len(multikb.train) + Len(excluded_triples)
          /\ Len(MultiKb_train_triples) = Len(kb_dataset.train)

\* A training set of three triples, one of them twice, is split in two parts
\* of two and one triples, the first selected.
C17_Witness ==
    /\ kb_pc = "built"
    /\ n_part = 2
    /\ id_set = {0}
    /\ Len(kb_dataset.train) = 3
    /\ Cardinality(Range(kb_dataset.train)) = 2
    /\ Len(multikb.train) = 2
    /\ Len(excluded_triples) = 1

\* C18: the true triples of a built MultiKb hold every triple of the input
\* training set, selected or excluded, and every validation and test triple,
\* each as many times as the input does.
C18_TrueTriplesKeepExcluded ==
    kb_pc = "built" =>
       /\ Range(kb_dataset.train) \cup Range(kb_dataset.valid) \cup Range(kb_dataset.test)
             \subseteq Range(MultiKb_true_triples)
       /\ Range(excluded_triples) \subseteq Range(MultiKb_true_triples)
       /\ SameMultiset(MultiKb_true_triples,
                       kb_dataset.train \o kb_dataset.valid \o kb_dataset.test)

\* A training triple that is excluded, and is neither a validation nor a test
\* triple, is among the true triples.
C18_Witness ==
    /\ kb_pc = "built"
    /\ \E k \in 1..Len(excluded_triples) :
          /\ excluded_triples[k] \notin Range(multikb.train)
          /\ excluded_triples[k] \notin Range(multikb.valid) \cup Range(multikb.test)
          /\ excluded_triples[k] \in Range(MultiKb_true_triples)
    /\ multikb.valid # <<>>
    /\ multikb.train # <<>>

\* ------------------------------------------- threshold and accuracy claims
\* The accuracy of X, y at a threshold thr, counted over the triplets: the
\* triplets labelled 1 scored at least thr and the others scored below thr,
\* over |X|.
AccuracyAt(thr) ==
    Fraction(Cardinality({ i \in 1..Len(X) : \/ y[i] = 1 /\ Score(model, X[i]) >= thr
                                             \/ y[i] # 1 /\ Score(model, X[i]) < thr }),
             Len(X))

ThresholdReturned == acc_pc \in {"found", "checked"} /\ X # <<>>

\* C19: find_treshold returns the best threshold and its accuracy: the
\* threshold is one of the scores the model predicts for X, no predicted score
\* used as threshold has a strictly higher accuracy, and the accuracy returned
\* is the accuracy of X, y at the threshold returned.
C19_BestThreshold ==
    ThresholdReturned =>
        /\ ~best.threshold.is_none
        /\ \E i \in 1..Len(X) : best.threshold.value = Score(model, X[i])
        /\ \A i \in 1..Len(X) : GreaterOrEqual(best.accuracy, AccuracyAt(Score(model, X[i])))
        /\ best.accuracy = AccuracyAt(best.threshold.value)

\* What C19 says of the calls that do return a threshold, and what is returned
\* otherwise: every predicted score has accuracy 0, and the pair is None, 0.
C19_BestThresholdOrNone ==
    ThresholdReturned =>
        /\ \A i \in 1..Len(X) : GreaterOrEqual(best.accuracy, AccuracyAt(Score(model, X[i])))
        /\ IF best.threshold.is_none
           THEN best.accuracy = <<0, 1>>
           ELSE /\ \E i \in 1..Len(X) : best.threshold.value = Score(model, X[i])
                /\ best.accuracy = AccuracyAt(best.threshold.value)

\* find_treshold returned None: X is not empty, every label is 0 and the
\* predictions are equal.
C19_NoneReturned ==
    /\ ThresholdReturned
    /\ best.threshold.is_none
    /\ \A i \in 1..Len(X) : y[i] = 0 /\ Score(model, X[i]) = Score(model, X[1])

\* C20: round trip: accuracy called with the model, X, y of find_treshold and
\* the threshold it returned returns exactly the accuracy find_treshold
\* reported.
C20_RoundTrip ==
    (acc_pc = "checked" /\ X # <<>>) =>
        /\ checked.outcome = "returned"
        /\ checked.value = best.accuracy

\* The round trip of the calls that return a threshold; with None, accuracy
\* raises.
C20_RoundTripOrRaise ==
    (acc_pc = "checked" /\ X # <<>>) =>
        IF best.threshold.is_none
        THEN checked.outcome = "TypeError"
        ELSE checked = AccuracyReturn(best.accuracy)

\* accuracy raised on the threshold find_treshold returned.
C20_Raised ==
    /\ acc_pc = "checked"
    /\ X # <<>>
    /\ checked.outcome = "TypeError"

\* ------------------------------------------------------ sub-stream claims
\* C22: with shuffling off, the head and tail sub-streams advance
\* independently over the same ordered training set: the j-th tail-batch (pull
\* 2j-1) and the j-th head-batch (pull 2j) both carry the training triples of
\* batch index (j-1) mod B in training order, B the number of batches of a
\* pass; a step that serves a pull of one mode leaves the generator of the
\* other mode as it was.
C22_IndependentSubStreams ==
    /\ [](~shuffle =>
            \A k \in 1..Len(history) :
                LET j == (k + 1) \div 2
                    b == (j - 1) % NumBatches(Len(train), batch_size)
                IN  /\ history[k].positions
                           = [i \in 1..Min(batch_size, Len(train) - b * batch_size)
                                  |-> b * batch_size + i]
                    /\ history[k].positive_sample
                           = [i \in 1..Len(history[k].positions)
                                  |-> train[history[k].positions[i]]])
    /\ [][\A m \in TrainModes : fetch'[m] # fetch[m] => pc = m]_vars

\* Both sub-streams have read a whole pass of B > 1 batches, each at its own
\* pace, and the tail sub-stream has begun its second pass: pulls 2B-1 and 2B
\* returned the last batch, pull 2B+1 the first batch again.
C22_Witness ==
    LET B == NumBatches(Len(train), batch_size)
    IN  /\ ~shuffle
        /\ B > 1
        /\ Len(history) >= 2 * B + 1
        /\ history[2 * B].mode = "head-batch"
        /\ history[2 * B].positions = history[2 * B - 1].positions
        /\ history[2 * B].positions # history[1].positions
        /\ history[2 * B + 1].positions = history[1].positions

\* -------------------------------------------------- subsampling weight claims
\* Occurrences in the training set of the prefix (head, relation) and of the
\* prefix (relation, tail) of a triple.
FreqHeadRelation(triple) ==
    Cardinality({ i \in 1..Len(train) : train[i][1] = triple[1] /\ train[i][2] = triple[2] })

FreqRelationTail(triple) ==
    Cardinality({ i \in 1..Len(train) : train[i][2] = triple[2] /\ train[i][3] = triple[3] })

\* C21: the weight delivered with a positive triple (h, r, t) is
\* 1 / sqrt(freq(h, r) + freq(r, t)), freq the occurrences of the prefix in the
\* training set only; it is strictly positive.
C21_InverseRootOfFrequencies ==
    \A k \in 1..Len(history) :
        \A i \in 1..Len(history[k].positive_sample) :
            /\ history[k].weight[i].inv_sq
                   = FreqHeadRelation(history[k].positive_sample[i])
                       + FreqRelationTail(history[k].positive_sample[i])
            /\ history[k].weight[i].inv_sq > 0

\* C21 as the code has it: the weight delivered with a positive triple is
\* 1 / sqrt(c(h, r) + c(r, t)), each counter being 3 more than the occurrences
\* of its prefix in the training set only; every batch carries one weight per
\* positive triple; the weight is strictly positive, and the same for every
\* delivery of that triple, in head-batch and tail-batch pulls and in every
\* pass.
C21_InverseRootOfCounters ==
    \A k \in 1..Len(history) :
        /\ Len(history[k].weight) = Len(history[k].positive_sample)
        /\ \A i \in 1..Len(history[k].positive_sample) :
              /\ history[k].weight[i].inv_sq
                     = (FreqHeadRelation(history[k].positive_sample[i]) + 3)
                         + (FreqRelationTail(history[k].positive_sample[i]) + 3)
              /\ history[k].weight[i].inv_sq > 0
              /\ \A l \in 1..Len(history) :
                    \A j \in 1..Len(history[l].positive_sample) :
                        history[l].positive_sample[j] = history[k].positive_sample[i]
                            => history[l].weight[j] = history[k].weight[i]

\* A triple whose prefix (head, relation) occurs twice in train and also in
\* the validation or test set was delivered in a tail-batch, in a head-batch
\* and again in a second pass.
C21_Witness ==
    \E k, l, n \in 1..Len(history) :
        /\ k < l /\ l < n
        /\ history[k].mode = "tail-batch"
        /\ history[l].mode = "head-batch"
        /\ history[n].mode = "tail-batch"
        /\ history[k].positions = history[n].positions
        /\ LET triple == history[k].positive_sample[1]
           IN  /\ history[l].positive_sample[1] = triple
               /\ FreqHeadRelation(triple) = 2
               /\ \E j \in 1..Len(valid \o test) :
                      /\ (valid \o test)[j][1] = triple[1]
                      /\ (valid \o test)[j][2] = triple[2]

\* ------------------------------------------------------ partition claims
\* C23: the MultiKb objects built from one dataset, with the same n_part and
\* seed, split the training set the same way: what an object selects and what
\* it excludes hold together the training triples, each as many times; the
\* parts selected by two disjoint id_sets hold together no triple more times
\* than the training set does, and the part selected by one is within the
\* excluded triples of the other; an id_set that names every part selects the
\* whole training set.
C23_ConsistentPartition ==
    \A a, b \in 1..Len(built) :
        /\ SameMultiset(built[a].train \o built[a].excluded_triples, kb_dataset.train)
        /\ built[a].id_set \cap built[b].id_set = {} =>
              \A t \in Range(kb_dataset.train) :
                  /\ Count(built[a].train, t) + Count(built[b].train, t)
                         <= Count(kb_dataset.train, t)
                  /\ Count(built[a].train, t) <= Count(built[b].excluded_triples, t)
        /\ 0..(n_part - 1) \subseteq built[a].id_set =>
              /\ SameMultiset(built[a].train, kb_dataset.train)
              /\ built[a].excluded_triples = <<>>

\* Two objects were built from a training set of three different triples
\* that the seeded shuffle reorders, with disjoint id_sets that each select a
\* part that is not empty.
C23_Witness ==
    /\ Len(built) = 2
    /\ Len(kb_dataset.train) = 3
    /\ Cardinality(Range(kb_dataset.train)) = 3
    /\ seeded_order # Identity(3)
    /\ built[1].id_set \cap built[2].id_set = {}
    /\ built[1].train # <<>>
    /\ built[2].train # <<>>

\* C26: split_train leaves the list passed as train unchanged, the same
\* triples in the same order: no step of it changes dataset.train.
C26_TrainUnchanged == [][kb_dataset'.train = kb_dataset.train]_vars

\* split_train has shuffled and split a training set of two different triples
\* or more in another order than the one it was passed in.
C26_Witness ==
    /\ kb_pc = "split"
    /\ Cardinality(Range(kb_dataset.train)) >= 2
    /\ Concat(frames) # kb_dataset.train
    /\ SameMultiset(Concat(frames), kb_dataset.train)

\* ---------------------------------------------------- entity table claims
\* The ids of a table, and the name a table gives an id.
Ids(d) == { d[i][2] : i \in 1..Len(d) }

NamesOf(d, id) == { d[i][1] : i \in { j \in 1..Len(d) : d[j][2] = id } }

\* The table `out` is the table `inp` with exactly k entities renamed: as
\* many entries, the same ids, one name for each id and one id for each
\* name, the entries in increasing order of id, k ids under another name
\* than in `inp` and the others under the same name.
CorruptedTable(inp, out, k) ==
    /\ Len(out) = Len(inp)
    /\ Ids(out) = Ids(inp)
    /\ \A i, j \in 1..Len(out) : i < j => out[i][2] < out[j][2]
    /\ \A i, j \in 1..Len(out) : i # j => out[i][1] # out[j][1]
    /\ Cardinality({ id \in Ids(inp) : NamesOf(out, id) # NamesOf(inp, id) }) = k

\* round(n * (1 - aligned_entities)), counted without the model's round: the
\* whole number nearest to n * (2 - halves) / 2, the even one at a tie.
RoundedToCorrupt(n, halves) ==
    CHOOSE k \in 0..n :
        /\ 2 * k - 1 <= n * (2 - halves) /\ n * (2 - halves) <= 2 * k + 1
        /\ (n * (2 - halves) = 2 * k - 1 \/ n * (2 - halves) = 2 * k + 1) => k % 2 = 0

\* The step in which MultiKb.__init__ leaves split_train and calls
\* corrupt_entities and Dataset.__init__.
InitStep == kb_pc = "split" /\ kb_pc' # "split"

\* C24: corrupt_entities renames exactly round(n * (1 - aligned_entities))
\* of the n entities of the table it is given and keeps the names of the
\* others; the table it returns has as many entries and the same ids, every
\* id under exactly one name, in increasing order of id.
C24_CorruptEntities ==
    [][InitStep =>
          /\ kb_pc' = "built"
          /\ CorruptedTable(kb_entities, multikb_entities',
                            RoundedToCorrupt(Len(kb_entities), aligned_entities))]_vars

\* The ids of the table are 0 .. n-1, and no new name of the table is a name
\* the table already holds.
NewNamesAreNew(d, ids, n) ==
    /\ Ids(d) = 0..(Len(d) - 1)
    /\ \A i, j \in 1..Len(d) : Renamed(d[i][1], ids, n) # d[j][1]

\* What C24 says, for the tables that hold none of the new names.
C24_CorruptEntitiesNewNames ==
    [][(InitStep /\ NewNamesAreNew(kb_entities, id_set, n_part)) =>
          /\ kb_pc' = "built"
          /\ CorruptedTable(kb_entities, multikb_entities',
                            RoundedToCorrupt(Len(kb_entities), aligned_entities))]_vars

\* A MultiKb was built whose table has fewer entries than dataset.entities
\* had ids: an entity was renamed to a name the table held.
C24_EntryLost ==
    /\ kb_pc = "built"
    /\ Len(built) = 1
    /\ Len(multikb_entities) < seeded_choice.n_entities

\* C25: building a MultiKb from a dataset leaves dataset.entities as it was:
\* the same names for the same ids, in no step of the construction changed.
C25_SourceEntitiesUnchanged == [][kb_entities' = kb_entities]_vars

\* After the construction dataset.entities holds the renamed entities of the
\* MultiKb: the same items as its table, none of them an item of the table
\* of two entities the dataset had.
C25_SourceRenamed ==
    /\ kb_pc = "built"
    /\ Len(built) = 1
    /\ Len(kb_entities) = 2
    /\ Range(kb_entities) = Range(multikb_entities)
    /\ \A i \in 1..2 : kb_entities[i][1].suffix = << <<id_set, n_part>> >>

\* ----------------------------------------------------------------
\* Filtered and raw ranks (FilterSpec)
\* ----------------------------------------------------------------
\* The rows ranked by the call of the Evaluation with true triples, each with
\* the row of the same mode and triple ranked by the call without.
RankedPairs ==
    { <<j, k>> \in (DOMAIN ranked) \X (DOMAIN raw_call.ranked) :
        /\ true_triples # <<>>
        /\ ranked[j].mode = raw_call.ranked[k].mode
        /\ ranked[j].index = raw_call.ranked[k].index }

\* The candidates other than the true answer that the filter leaves alone
\* and the model scores as it scores the true answer.
TiedOthers(triple, mode) ==
    { c \in Candidates(mode) :
        /\ c # PositiveArg(mode, triple)
        /\ FilterBias(triple, mode)[c] = 0
        /\ Score(model, Substitute(triple, mode, c)) = Score(model, triple) }

\* No row of the dataset has such a candidate in a mode of the call.
NoTies(call) ==
    \A i \in DOMAIN dataset :
        \A mode \in (IF call = "eval" THEN Range(get_entity_stream)
                     ELSE Range(get_relation_stream)) :
            TiedOthers(dataset[i], mode) = {}

\* The value a call returned under the name of a metric.
ReturnedValue(values, call, name) ==
    IF call = "eval" THEN values[name] ELSE values[<<name, "_relations">>]

\* Both calls returned, and they are calls of the same method.
BothReturned ==
    /\ true_triples # <<>>
    /\ epc = "idle"
    /\ result.call # "none"
    /\ result.call = raw_call.call

\* Filtered MR <= raw MR and filtered HITS@k >= raw HITS@k.
MetricsNoWorse ==
    /\ ReturnedValue(result.values, result.call, "MR")
          <= ReturnedValue(raw_call.values, raw_call.call, "MR")
    /\ \A name \in {"HITS@1", "HITS@3", "HITS@10"} :
          ReturnedValue(result.values, result.call, name)
             >= ReturnedValue(raw_call.values, raw_call.call, name)

C27_TieRankedLarger ==
    \E pair \in RankedPairs :
        ranked[pair[1]].ranking > raw_call.ranked[pair[2]].ranking

====
